---- MODULE Spec2Model ----
(***************************************************************************)
(* A model of the MOEX ISS client (src/data/moex-fetcher-*.py):            *)
(*   - parse_json_response, the columnar-block parser (parsers.py);        *)
(*   - MoexApiClient: the rate-limit gate, _make_request, get_json,        *)
(*     get_data and get_dataframe (client.py).                             *)
(* Time is counted in ticks of 0.1 s.                                      *)
(***************************************************************************)
EXTENDS Integers, Sequences, FiniteSets, TLC

VARIABLES
    response_data,      \* parsers.py: the argument of parse_json_response
    parse_out,          \* parsers.py: what parse_json_response returned or raised
    now,                \* the clock time.time() reads
    sleep_real,         \* FALSE when time.sleep is patched out (test.py:185)
    rate_limit,         \* MoexApiClient.rate_limit
    last_request_time,  \* MoexApiClient.last_request_time
    pc,                 \* position of the one calling thread in a request
    req,                \* the arguments of the call in progress
    gate,               \* what _enforce_rate_limit did in this call
    send_time,          \* clock when the request was handed to the transport
    resp,               \* the transport's outcome for this call
    call_out,           \* what get_json / get_data / get_dataframe gave
    prev,               \* how and when the previous request attempt ended
    sent,               \* requests handed to the transport by the call in progress
    frame_out,          \* parsers.py: what response_to_dataframe was given and gave
    norm_out,           \* parsers.py: what normalize_dataframe was given and gave
    threads,            \* the threads that share one client instance
    batch,              \* endpoints.py: the loop of get_market_data_snapshot
    date_in,            \* utils.py: the arguments of the date function called
    date_out,           \* utils.py: what the date function returned or raised
    built,              \* client.py: the constructor's argument and the gates run since
    url_in,             \* utils.py: the arguments of the URL function called
    url_out,            \* utils.py: what the URL function returned
    ep                  \* client.py, endpoints.py: the endpoint call in progress

vars == <<response_data, parse_out, now, sleep_real, rate_limit,
          last_request_time, pc, req, gate, send_time, resp, call_out, prev,
          sent, frame_out, norm_out, threads, batch, date_in, date_out,
          built, url_in, url_out, ep>>

parse_vars == <<response_data, parse_out, frame_out, norm_out>>

client_vars == <<now, sleep_real, rate_limit, last_request_time, pc, req,
                 gate, send_time, resp, call_out, prev, sent>>

\* the state of the parts a specification does not exercise
rest_vars == <<threads, batch, date_in, date_out, built, url_in, url_out, ep>>

\* the constructor's record, the URL functions and the endpoint methods
more_vars == <<built, url_in, url_out, ep>>

----------------------------------------------------------------------------
(* Bounds of the model.                                                     *)

\* total number of column names in one response document
MaxCols == 2
\* total number of rows in one response document
MaxRows == 2
\* last clock reading
MaxTime == 6
\* longest Retry-After header value, in characters
MaxHeaderLen == 2

\* the names of the entries of a response document, in document order
BlockNames == <<"b1", "b2">>
\* the column names a block may use (a name may repeat inside a block)
ColNames == {"a", "b"}

----------------------------------------------------------------------------
(* Python values.                                                           *)

\* Optional values: None and a present value.
None == [some |-> FALSE, v |-> 0]
Some(x) == [some |-> TRUE, v |-> x]

\* A JSON array, and a JSON scalar (number, null, true): a scalar has no
\* len() and cannot be iterated.
PyList(xs) == [kind |-> "list", elems |-> xs]
PyScalar == [kind |-> "scalar", elems |-> <<>>]

Min(a, b) == IF a < b THEN a ELSE b

\* A response body: its text, and the value the text decodes to when it is
\* JSON. NoBody is the body the client does not read.
NullValue == [kind |-> "null", items |-> <<>>]
NoBody == [is_json |-> FALSE, text |-> "", value |-> NullValue]
\* a body whose text is no JSON
TextBody(text) == [is_json |-> FALSE, text |-> text, value |-> NullValue]
\* a body whose text is the JSON document d
JsonBody(text, d) == [is_json |-> TRUE, text |-> text, value |-> d]

\* The data attribute of a MoexParsingError: absent, the text of a response
\* body (client.py:202) or the document given to the parser (parsers.py:63).
NoData == [kind |-> "none", text |-> "", value |-> NullValue]
TextData(text) == [kind |-> "text", text |-> text, value |-> NullValue]
DocData(d) == [kind |-> "doc", text |-> "", value |-> d]

\* An exception object. status_code, response, retry_after and data are the
\* fields of exceptions.py; original_error names the wrapped exception
\* ("" when there is none).
NoHeader == [some |-> FALSE, v |-> <<>>]
NoResp == [status |-> 0, retry_after |-> NoHeader, body |-> NoBody, exc |-> ""]

Exc(type, message, original) ==
    [type |-> type, message |-> message, status_code |-> None,
     response |-> NoResp, retry_after |-> None, data |-> NoData,
     original_error |-> original]

\* MoexParsingError(message, data=..., original_error=...)
ParsingError(message, data, original) ==
    [Exc("MoexParsingError", message, original) EXCEPT !.data = data]

NoExc == Exc("", "", "")

\* The value a cell of the response carries: cells are opaque to the parser,
\* so each cell holds a value of its own, naming its block, row and position.
Cell(bi, ri, ci) == 100 * bi + 10 * ri + ci

----------------------------------------------------------------------------
(* parsers.py: parse_json_response.                                         *)

Returned(x) == [kind |-> "ok", result |-> x, error |-> NoExc]
Raised(e) == [kind |-> "raise", result |-> <<>>, error |-> e]
NotCalled == [kind |-> "none", result |-> <<>>, error |-> NoExc]

\* A dict as the sequence of its <<key, value>> items in insertion order.
DictHas(d, k) == \E i \in 1..Len(d) : d[i][1] = k

\* d[k] = v: a new key is appended, an old key keeps its place.
DictSetExisting(d, k, v) ==
    [i \in 1..Len(d) |-> IF d[i][1] = k THEN <<k, v>> ELSE d[i]]

DictSet(d, k, v) ==
    IF DictHas(d, k) THEN DictSetExisting(d, k, v) ELSE Append(d, <<k, v>>)

DictKeys(d) == [i \in 1..Len(d) |-> d[i][1]]

RECURSIVE DictZipFrom(_, _, _, _)
DictZipFrom(keys, vals, i, acc) ==
    IF i > Min(Len(keys), Len(vals)) THEN acc
    ELSE DictZipFrom(keys, vals, i + 1, DictSet(acc, keys[i], vals[i]))

\* a dict(zip(...)) that pairs the keys with the values in reverse
DictZipReversed(keys, vals) ==
    DictZipFrom(keys, [i \in 1..Len(vals) |-> vals[Len(vals) + 1 - i]], 1, <<>>)

\* line 55: dict(zip(columns, row))
DictZip(keys, vals) == DictZipFrom(keys, vals, 1, <<>>)

\* len(x): a TypeError for a value without a length.
HasLen(x) == x.kind = "list"

ColumnCountMismatch ==
    Exc("MoexParsingError", "Column count mismatch", "")

\* a length check that only notices rows that are too short
RowTooShort(row, columns) == Len(row.elems) < Len(columns.elems)

\* line 49: len(row) != len(columns)
RowMismatch(row, columns) == Len(row.elems) # Len(columns.elems)

\* lines 47-56: the loop over the rows of one block, from row i on.
RECURSIVE ParseRows(_, _, _, _)
ParseRows(columns, data, i, rows) ==
    IF i > Len(data.elems) THEN Returned(rows)
    ELSE LET row == data.elems[i] IN
         IF ~HasLen(row) \/ ~HasLen(columns)
         THEN Raised(Exc("TypeError", "object has no len()", ""))
         ELSE IF RowMismatch(row, columns)
         THEN Raised(ColumnCountMismatch)
         ELSE ParseRows(columns, data, i + 1,
                        Append(rows, DictZip(columns.elems, row.elems)))

\* line 40: the entries that are data blocks.
IsDataBlock(content) ==
    /\ content.kind = "dict"
    /\ "columns" \in content.keys
    /\ "data" \in content.keys

\* a test that skips only the values that are no mappings
SkipNonMappings(content) == content.kind # "dict"

\* line 40: the entries that are not data blocks are skipped.
SkipBlock(content) == ~IsDataBlock(content)

\* lines 43-58: one data block.
ParseBlock(content) ==
    IF content.data.kind # "list"
    THEN Raised(Exc("TypeError", "object is not iterable", ""))
    ELSE ParseRows(content.columns, content.data, 1, <<>>)

\* lines 38-60: the loop over the entries, from entry i on.
RECURSIVE ParseEntries(_, _, _)
ParseEntries(items, i, result) ==
    IF i > Len(items) THEN Returned(result)
    ELSE IF SkipBlock(items[i].content)
    THEN ParseEntries(items, i + 1, result)
    ELSE LET rows == ParseBlock(items[i].content) IN
         IF rows.kind = "raise" THEN rows
         ELSE ParseEntries(items, i + 1,
                           DictSet(result, items[i].name, rows.result))

\* lines 62-63: except (KeyError, TypeError).
CaughtByParser(e) == e.type \in {"KeyError", "TypeError"}

\* lines 35-63
parse_json_response(data) ==
    LET out == IF data.kind # "dict"
               THEN Raised(Exc("AttributeError", "no attribute 'items'", ""))
               ELSE ParseEntries(data.items, 1, <<>>)
    IN IF out.kind = "raise" /\ CaughtByParser(out.error)
       THEN Raised(ParsingError("Failed to parse API response",
                                DocData(data), out.error.type))
       ELSE out

----------------------------------------------------------------------------
(* The response documents the parser is given. The server's document is     *)
(* put together entry by entry, column by column and row by row; the parser *)
(* may be handed the document at any point.                                 *)

Row(bi, ri, len) ==
    IF len < 0 THEN PyScalar
    ELSE PyList([ci \in 1..len |-> Cell(bi, ri, ci)])

\* a row is a list of 0..MaxCols cells, or (-1) a scalar
RowShapes == (-1)..MaxCols

Block(keys, columns, data) ==
    [kind |-> "dict", keys |-> keys, columns |-> columns, data |-> data]

Metadata ==
    [kind |-> "other", keys |-> {}, columns |-> PyScalar, data |-> PyScalar]

\* the values a new entry starts from: a non-mapping value, or a mapping
\* holding `columns`, `data`, both or neither, each a list or a scalar
NewContents ==
    {Metadata}
    \cup {Block(keys, cols, data) :
            keys \in SUBSET {"columns", "data"},
            cols \in {PyList(<<>>), PyScalar},
            data \in {PyList(<<>>), PyScalar}}

WellShaped(content) ==
    /\ "columns" \notin content.keys => content.columns = PyScalar
    /\ "data" \notin content.keys => content.data = PyScalar

RECURSIVE TotalColsFrom(_, _)
TotalColsFrom(items, i) ==
    IF i > Len(items) THEN 0
    ELSE Len(items[i].content.columns.elems) + TotalColsFrom(items, i + 1)

RECURSIVE TotalRowsFrom(_, _)
TotalRowsFrom(items, i) ==
    IF i > Len(items) THEN 0
    ELSE Len(items[i].content.data.elems) + TotalRowsFrom(items, i + 1)

TotalCols(doc) == TotalColsFrom(doc.items, 1)
TotalRows(doc) == TotalRowsFrom(doc.items, 1)

EmptyDocuments ==
    {[kind |-> k, items |-> <<>>] : k \in {"dict", "list", "str", "null"}}

----------------------------------------------------------------------------
(* parsers.py: response_to_dataframe and normalize_dataframe, as            *)
(* get_dataframe uses them.                                                 *)

\* a cell of a table whose row has no value for the column
Missing == 0 - 1

DictGet(d, k) == d[CHOOSE i \in 1..Len(d) : d[i][1] = k][2]

RECURSIVE AddKeys(_, _, _)
AddKeys(cols, keys, i) ==
    IF i > Len(keys) THEN cols
    ELSE AddKeys(IF \E j \in 1..Len(cols) : cols[j] = keys[i]
                 THEN cols ELSE Append(cols, keys[i]), keys, i + 1)

RECURSIVE ColumnsOfRows(_, _, _)
ColumnsOfRows(rows, i, cols) ==
    IF i > Len(rows) THEN cols
    ELSE ColumnsOfRows(rows, i + 1, AddKeys(cols, DictKeys(rows[i]), 1))

\* the default index of a table: the row numbers from 0
RangeIndex(n) == [name |-> "", values |-> [i \in 1..n |-> i - 1]]

\* pd.DataFrame(list of dicts): the columns are the keys in order of first
\* appearance, one table row per dict, indexed by row number.
DataFrame(rows) ==
    LET cols == ColumnsOfRows(rows, 1, <<>>) IN
    [columns |-> cols,
     index |-> RangeIndex(Len(rows)),
     rows |-> [ri \in 1..Len(rows) |->
                 [ci \in 1..Len(cols) |->
                     IF DictHas(rows[ri], cols[ci])
                     THEN DictGet(rows[ri], cols[ci]) ELSE Missing]]]

\* a test that lets every block through
AnyBlock(data) == TRUE

\* line 98: if data
NonEmpty(data) == data # <<>>

RECURSIVE NonEmptyBlocks(_, _, _)
NonEmptyBlocks(parsed, i, result) ==
    IF i > Len(parsed) THEN result
    ELSE NonEmptyBlocks(parsed, i + 1,
            IF NonEmpty(parsed[i][2])
            THEN DictSet(result, parsed[i][1], DataFrame(parsed[i][2]))
            ELSE result)

\* a conversion that gives an empty table for a block that is not there
response_to_dataframe_or_empty(parsed, block_name) ==
    IF block_name.some
    THEN IF ~DictHas(parsed, block_name.v)
         THEN Returned(DataFrame(<<>>))
         ELSE Returned(DataFrame(DictGet(parsed, block_name.v)))
    ELSE Returned(NonEmptyBlocks(parsed, 1, <<>>))

\* lines 84-104, for a mapping of blocks; block_name is None or a name
response_to_dataframe(parsed, block_name) ==
    IF block_name.some
    THEN IF ~DictHas(parsed, block_name.v)
         THEN Raised(Exc("MoexParsingError",
                         "Failed to convert response to DataFrame",
                         "MoexParsingError"))
         ELSE Returned(DataFrame(DictGet(parsed, block_name.v)))
    ELSE Returned(NonEmptyBlocks(parsed, 1, <<>>))

\* the values pd.to_datetime, pd.to_numeric and astype('category') give for
\* a cell: another representation of the cell; a missing cell stays missing
ToDatetime(v) == IF v = Missing THEN Missing ELSE 1000 + v
ToNumeric(v) == IF v = Missing THEN Missing ELSE 2000 + v
AsCategory(v) == IF v = Missing THEN Missing ELSE 3000 + v

Convert(kind, v) ==
    CASE kind = "date" -> ToDatetime(v)
      [] kind = "numeric" -> ToNumeric(v)
      [] kind = "category" -> AsCategory(v)

ColumnIndex(df, col) == CHOOSE i \in 1..Len(df.columns) : df.columns[i] = col

InColumns(df, col) == \E i \in 1..Len(df.columns) : df.columns[i] = col

\* lines 131-133, 137-139, 143-145: the columns of cols that the table has
\* are converted, one after the other
RECURSIVE ConvertColumns(_, _, _, _)
ConvertColumns(df, cols, kind, i) ==
    IF i > Len(cols) THEN df
    ELSE ConvertColumns(
            IF InColumns(df, cols[i])
            THEN [df EXCEPT !.rows =
                    [ri \in 1..Len(df.rows) |->
                        [df.rows[ri] EXCEPT ![ColumnIndex(df, cols[i])] =
                            Convert(kind, @)]]]
            ELSE df,
            cols, kind, i + 1)

Without(seq, k) == [i \in 1..Len(seq) - 1 |-> IF i < k THEN seq[i] ELSE seq[i + 1]]

\* line 149: df.set_index(col): the column becomes the index
SetIndex(df, col) ==
    LET k == ColumnIndex(df, col) IN
    [columns |-> Without(df.columns, k),
     index |-> [name |-> col,
                values |-> [ri \in 1..Len(df.rows) |-> df.rows[ri][k]]],
     rows |-> [ri \in 1..Len(df.rows) |-> Without(df.rows[ri], k)]]

\* a Normalization Spec: the three column lists (None and the empty list
\* are both <<>>) and the index column
NormSpec(date, numeric, categorical, index) ==
    [date_columns |-> date, numeric_columns |-> numeric,
     categorical_columns |-> categorical, index_column |-> index]

NoColumn == [some |-> FALSE, v |-> ""]

EmptyNormSpec == NormSpec(<<>>, <<>>, <<>>, NoColumn)

\* a normalization that turns every column into numbers
normalize_dataframe_all_numeric(df, spec) ==
    ConvertColumns(df, df.columns, "numeric", 1)

\* lines 127-151
normalize_dataframe(df, spec) ==
    LET dated == ConvertColumns(df, spec.date_columns, "date", 1)
        numbered == ConvertColumns(dated, spec.numeric_columns, "numeric", 1)
        categorized ==
            ConvertColumns(numbered, spec.categorical_columns, "category", 1)
    IN IF spec.index_column.some /\ spec.index_column.v # ""
          /\ InColumns(categorized, spec.index_column.v)
       THEN SetIndex(categorized, spec.index_column.v)
       ELSE categorized

----------------------------------------------------------------------------
(* client.py: MoexApiClient.                                                *)

\* line 46: RATE_LIMIT = 0.2 seconds
RATE_LIMIT == 2

\* the rate_limit arguments given to the constructor: None, 0 and 0.5 s
RateLimitArgs == {None, Some(0), Some(5)}

\* a constructor that keeps the argument whenever one is given
InitRateLimitAsGiven(arg) == IF arg.some THEN arg.v ELSE RATE_LIMIT

\* line 64: rate_limit or self.RATE_LIMIT
InitRateLimit(arg) == IF arg.some /\ arg.v # 0 THEN arg.v ELSE RATE_LIMIT

\* the HTTP methods a caller passes
Methods == {"GET", "POST", "PUT"}

\* the block_name arguments of get_dataframe
BlockNameArgs == {[some |-> FALSE, v |-> ""], [some |-> TRUE, v |-> "b1"]}

\* the status codes the server answers with
Statuses == {200, 399, 400, 401, 403, 404, 429}

\* the characters of a Retry-After header value
HeaderChars == {"0", "6", "x"}

RetryAfterHeaders ==
    {NoHeader} \cup
    {[some |-> TRUE, v |-> s] :
        s \in UNION {[1..n -> HeaderChars] : n \in 0..MaxHeaderLen}}

\* the exceptions of requests.exceptions the transport raises
TransportErrors == {"ConnectionError", "Timeout"}

\* the bodies the server answers with: two texts that are no JSON, a JSON
\* array, an empty JSON object, one block with a row, one block with a short
\* row
OneBlock(cols, rowlens) ==
    [kind |-> "dict",
     items |-> <<[name |-> "b1",
                  content |-> Block({"columns", "data"}, PyList(cols),
                     PyList([ri \in 1..Len(rowlens) |-> Row(1, ri, rowlens[ri])]))]>>]

Bodies ==
    {TextBody("This is not JSON"), TextBody(""),
     JsonBody("[]", [kind |-> "list", items |-> <<>>]),
     JsonBody("{}", [kind |-> "dict", items |-> <<>>]),
     JsonBody("{b1: [[1, 2]]}", OneBlock(<<"a", "b">>, <<2>>)),
     JsonBody("{b1: [[1]]}", OneBlock(<<"a", "b">>, <<1>>))}

Response(s, h, b) == [status |-> s, retry_after |-> h, body |-> b, exc |-> ""]

\* the responses of the transport, with the parts the client reads: the
\* Retry-After header of a 429 (line 136) and the body of a status below
\* 400 (line 198)
Responses ==
    {Response(429, h, NoBody) : h \in RetryAfterHeaders}
    \cup {Response(s, NoHeader, b) : s \in {x \in Statuses : x < 400}, b \in Bodies}
    \cup {Response(s, NoHeader, NoBody) : s \in {x \in Statuses : x >= 400 /\ x # 429}}

\* int(str): surrounding blanks are dropped, a sign may lead, and the rest
\* is one or more decimal digits; anything else is a ValueError
DigitValue(c) ==
    CASE c = "0" -> 0 [] c = "1" -> 1 [] c = "2" -> 2 [] c = "3" -> 3
      [] c = "4" -> 4 [] c = "5" -> 5 [] c = "6" -> 6 [] c = "7" -> 7
      [] c = "8" -> 8 [] c = "9" -> 9

Digits == {"0", "1", "2", "3", "4", "5", "6", "7", "8", "9"}

RECURSIVE LStrip(_)
LStrip(s) == IF Len(s) > 0 /\ s[1] = " " THEN LStrip(Tail(s)) ELSE s

RECURSIVE RStrip(_)
RStrip(s) ==
    IF Len(s) > 0 /\ s[Len(s)] = " " THEN RStrip(SubSeq(s, 1, Len(s) - 1)) ELSE s

RECURSIVE DecimalValue(_, _, _)
DecimalValue(s, i, acc) ==
    IF i > Len(s) THEN acc
    ELSE DecimalValue(s, i + 1, 10 * acc + DigitValue(s[i]))

PyInt(s) ==
    LET t == RStrip(LStrip(s))
        signed == Len(t) > 0 /\ t[1] \in {"+", "-"}
        digits == IF signed THEN Tail(t) ELSE t
    IN IF Len(digits) = 0 \/ \E i \in 1..Len(digits) : digits[i] \notin Digits
       THEN [ok |-> FALSE, v |-> 0]
       ELSE [ok |-> TRUE,
             v |-> IF signed /\ t[1] = "-"
                   THEN 0 - DecimalValue(digits, 1, 0)
                   ELSE DecimalValue(digits, 1, 0)]

\* line 136: the default of response.headers.get("Retry-After", "60")
DefaultRetryAfter == <<"6", "0">>

StatusError(type, message, r, retry_after) ==
    [type |-> type, message |-> message, status_code |-> Some(r.status),
     response |-> r, retry_after |-> retry_after, data |-> NoData,
     original_error |-> ""]

\* a gate that sleeps the whole interval whenever it sleeps
enforce_rate_limit_whole_interval(rl, last, t) ==
    IF rl # 0
    THEN IF t - last < rl
         THEN [reads |-> 1, now |-> t, last |-> last, slept |-> <<rl>>]
         ELSE [reads |-> 1, now |-> t, last |-> last, slept |-> <<>>]
    ELSE [reads |-> 0, now |-> t, last |-> last, slept |-> <<>>]

\* a gate that wakes one tick early
enforce_rate_limit_short_sleep(rl, last, t) ==
    IF rl # 0
    THEN IF t - last < rl
         THEN [reads |-> 1, now |-> t, last |-> last,
               slept |-> <<rl - (t - last) - 1>>]
         ELSE [reads |-> 1, now |-> t, last |-> last, slept |-> <<>>]
    ELSE [reads |-> 0, now |-> t, last |-> last, slept |-> <<>>]

\* lines 68-73: _enforce_rate_limit, reading the clock at t
enforce_rate_limit(rl, last, t) ==
    IF rl # 0
    THEN IF t - last < rl
         THEN [reads |-> 1, now |-> t, last |-> last, slept |-> <<rl - (t - last)>>]
         ELSE [reads |-> 1, now |-> t, last |-> last, slept |-> <<>>]
    ELSE [reads |-> 0, now |-> t, last |-> last, slept |-> <<>>]

\* lines 134-156: the status checks on a response
CheckStatus(r) ==
    IF r.status = 429
    THEN LET retry_after ==
                PyInt(IF r.retry_after.some THEN r.retry_after.v
                      ELSE DefaultRetryAfter)
         IN IF retry_after.ok
            THEN Raised(StatusError("MoexRateLimitError", "Rate limit exceeded",
                                    r, Some(retry_after.v)))
            ELSE Raised(Exc("ValueError", "invalid literal for int()", ""))
    ELSE IF r.status = 401 \/ r.status = 403
    THEN Raised(StatusError("MoexAuthError", "Authentication failed", r, None))
    ELSE IF r.status >= 400
    THEN Raised(StatusError("MoexResponseError", "API returned error response",
                            r, None))
    ELSE Returned(r)

\* a handler that loses the transport's exception
OnRequestExceptionUnwrapped(e) ==
    Raised(Exc("MoexConnectionError", "Failed to connect to MOEX API", ""))

\* lines 158-162: except requests.exceptions.RequestException as e
OnRequestException(e) ==
    Raised(Exc("MoexConnectionError", "Failed to connect to MOEX API", e))

\* a _make_request that goes back to the gate after a 429
retry_after_rate_limit(out) ==
    IF out.kind = "raise" /\ out.error.type = "MoexRateLimitError"
    THEN "gate" ELSE "done"

\* lines 134-162: every path after the transport's answer leaves
\* _make_request, by return or by raise; none goes back to the request
after_request(out) == "done"

\* a client that records the time the request was handed to the transport
record_send_time(send, t) == send

\* line 132: self.last_request_time = time.time(), read at t once the
\* transport has returned; the request was handed over at `send`
record_request_time(send, t) == t

\* line 129: neither GET nor POST
UnsupportedMethod ==
    Raised(Exc("ValueError", "Unsupported HTTP method", ""))

\* a get_json that reports the decode error without the body text
get_json_without_text(request_out) ==
    IF request_out.kind = "raise" THEN request_out
    ELSE IF request_out.result.body.is_json
    THEN Returned(request_out.result.body.value)
    ELSE Raised(ParsingError("Failed to parse JSON response", NoData,
                             "JSONDecodeError"))

\* lines 188-204: get_json on what _make_request gave
get_json(request_out) ==
    IF request_out.kind = "raise" THEN request_out
    ELSE IF request_out.result.body.is_json
    THEN Returned(request_out.result.body.value)
    ELSE Raised(ParsingError("Failed to parse JSON response",
                             TextData(request_out.result.body.text),
                             "JSONDecodeError"))

\* lines 233-241: get_data on what get_json gave
get_data(json_out) ==
    IF json_out.kind = "raise" THEN json_out
    ELSE parse_json_response(json_out.result)

\* line 285: every table of the mapping is normalized with no column lists
NormalizeAll(frames) ==
    [i \in 1..Len(frames) |->
        <<frames[i][1], normalize_dataframe(frames[i][2], EmptyNormSpec)>>]

\* lines 271-287: get_dataframe on what get_data gave
get_dataframe(data_out, block_name, normalize) ==
    IF data_out.kind = "raise" THEN data_out
    ELSE LET result == response_to_dataframe(data_out.result, block_name) IN
         IF result.kind = "raise" THEN result
         ELSE IF ~normalize THEN result
         ELSE IF block_name.some
         THEN Returned(normalize_dataframe(result.result, EmptyNormSpec))
         ELSE Returned(NormalizeAll(result.result))

\* what the nested calls get_dataframe -> get_data -> get_json ->
\* _make_request give, from what _make_request gives
Layers(request_out, block_name) ==
    [request |-> request_out,
     json |-> get_json(request_out),
     data |-> get_data(get_json(request_out)),
     dataframe |-> get_dataframe(get_data(get_json(request_out)), block_name,
                                 TRUE)]

NoLayers ==
    [request |-> NotCalled, json |-> NotCalled, data |-> NotCalled,
     dataframe |-> NotCalled]

NoGate == [reads |-> 0, now |-> 0, last |-> 0, slept |-> <<>>]

\* the threads that share the client
Threads == {"t1", "t2"}

\* a thread that is not inside a request
IdleThread == [pc |-> "idle", gate |-> NoGate, wake |-> 0, send_time |-> 0,
               out |-> "none"]

\* get_market_data_snapshot not called
NoBatch == [tickers |-> <<>>, i |-> 0, all_data |-> <<>>, log |-> <<>>,
            out |-> NotCalled]

\* no date argument given
NoArg == [some |-> FALSE,
          v |-> [kind |-> "other", chars |-> <<>>, date |-> [y |-> 0, m |-> 0, d |-> 0]]]

\* no date function called
NoDateIn == [op |-> "none", start |-> NoArg, end |-> NoArg, max |-> None,
             today |-> [y |-> 0, m |-> 0, d |-> 0], pads_year |-> TRUE]

\* response_to_dataframe and normalize_dataframe not called
FramesIdle ==
    /\ frame_out = [block_name |-> [some |-> FALSE, v |-> ""], out |-> NotCalled]
    /\ norm_out = [spec |-> [date_columns |-> <<>>, numeric_columns |-> <<>>,
                             categorical_columns |-> <<>>,
                             index_column |-> [some |-> FALSE, v |-> ""]],
                   out |-> NotCalled]

\* the constructor was called with the defaults
DefaultBuilt == [arg |-> None, assigned |-> FALSE, gated |-> FALSE,
                 skipped |-> FALSE]

\* no URL function called
NoUrlIn == [op |-> "none",
            base |-> [origin |-> "", path |-> <<>>, slash |-> FALSE],
            endpoint |-> [absolute |-> FALSE, segments |-> <<>>],
            path_params |-> <<>>, params |-> <<>>]

\* optional str arguments (engine, market, board, ...)
NoStr == [some |-> FALSE, v |-> ""]
SomeStr(s) == [some |-> TRUE, v |-> s]

\* `if board:` and the like: neither None nor ''
TruthyStr(a) == a.some /\ a.v # ""

\* optional arguments whose text is sent (query) or that are lists (columns)
NoText == [some |-> FALSE, v |-> <<>>]
SomeText(s) == [some |-> TRUE, v |-> s]
TruthyText(a) == a.some /\ a.v # <<>>

\* the truth value of a date argument: None and '' are falsy
TruthyDate(a) == a.some /\ ~(a.v.kind = "str" /\ a.v.chars = <<>>)

NoPlan == [kind |-> "none", error |-> NoExc,
           endpoint |-> [absolute |-> FALSE, segments |-> <<>>],
           path_params |-> <<>>, params |-> <<>>, block_name |-> ""]

\* the arguments of an endpoint method, those it does not take left at None
NoArgs == [security_id |-> "", engine |-> NoStr, market |-> NoStr,
           board |-> NoStr, board_group |-> NoStr, interval |-> "",
           code |-> 0, start |-> NoArg, end |-> NoArg, date |-> NoArg,
           query |-> NoText, columns |-> NoText, intervals |-> <<>>]

\* no endpoint method called
NoEndpointCall ==
    [op |-> "none", args |-> NoArgs, today |-> [y |-> 0, m |-> 0, d |-> 0],
     pads_year |-> TRUE, plan |-> NoPlan,
     url |-> [url |-> [origin |-> "", path |-> <<>>, slash |-> FALSE],
              format |-> ""],
     query |-> <<>>, out |-> NotCalled, i |-> 0, result |-> <<>>, log |-> <<>>]

UtilsIdle ==
    /\ url_in = NoUrlIn
    /\ url_out = NotCalled
    /\ ep = NoEndpointCall

MoreIdle ==
    /\ built = DefaultBuilt
    /\ UtilsIdle

RestIdle ==
    /\ threads = [t \in Threads |-> IdleThread]
    /\ batch = NoBatch
    /\ date_in = NoDateIn
    /\ date_out = NotCalled
    /\ MoreIdle

ClientIdle ==
    /\ now = 0
    /\ last_request_time = 0
    /\ pc = "idle"
    /\ req = [method |-> "GET", block_name |-> [some |-> FALSE, v |-> ""]]
    /\ gate = NoGate
    /\ send_time = 0
    /\ resp = NoResp
    /\ call_out = NoLayers
    /\ prev = [how |-> "none", end |-> 0]
    /\ sent = 0

\* lines 62-66: the state __init__ leaves; time.sleep is the real one or
\* the patched one of test_rate_limiting
Init ==
    /\ ClientIdle
    /\ sleep_real \in BOOLEAN
    /\ rate_limit \in {InitRateLimit(arg) : arg \in RateLimitArgs}
    /\ response_data = [kind |-> "dict", items |-> <<>>]
    /\ parse_out = NotCalled
    /\ FramesIdle
    /\ RestIdle

\* the clock advances; the client reads it at the gate (line 71), when the
\* request is sent and when the response is recorded (line 132), so the time
\* that passes between two calls is the time that passes before the gate
Tick ==
    /\ pc \in {"gate", "send", "wait"}
    /\ now < MaxTime
    /\ now' = now + 1
    /\ UNCHANGED <<parse_vars, rest_vars, sleep_real, rate_limit,
                   last_request_time, pc, req, gate, send_time, resp, call_out,
                   prev, sent>>

\* a caller enters get_dataframe
Call ==
    /\ pc \in {"idle", "done"}
    /\ \E m \in Methods, bn \in BlockNameArgs :
         req' = [method |-> m, block_name |-> bn]
    /\ pc' = "gate"
    /\ gate' = NoGate
    /\ send_time' = 0
    /\ resp' = NoResp
    /\ call_out' = NoLayers
    /\ sent' = 0
    /\ UNCHANGED <<parse_vars, rest_vars, now, sleep_real, rate_limit,
                   last_request_time, prev>>

\* line 105: the gate; time.sleep(d) returns d later, or at once when
\* patched. A sleep that would end after MaxTime is outside the model.
EnforceRateLimit ==
    /\ pc = "gate"
    /\ LET g == enforce_rate_limit(rate_limit, last_request_time, now)
           wake == IF sleep_real /\ g.slept # <<>> THEN now + g.slept[1] ELSE now
       IN /\ wake <= MaxTime
          /\ gate' = g
          /\ now' = wake
    /\ pc' = "send"
    /\ UNCHANGED <<parse_vars, rest_vars, sleep_real, rate_limit,
                   last_request_time, req, send_time, resp, call_out, prev, sent>>

\* lines 124-129: the request is handed to the transport, or the method is
\* refused
Send ==
    /\ pc = "send"
    /\ IF req.method \in {"GET", "POST"}
       THEN /\ send_time' = now
            /\ sent' = sent + 1
            /\ pc' = "wait"
            /\ UNCHANGED call_out
       ELSE /\ call_out' = Layers(UnsupportedMethod, req.block_name)
            /\ pc' = "done"
            /\ UNCHANGED <<send_time, sent>>
    /\ UNCHANGED <<parse_vars, rest_vars, now, sleep_real, rate_limit,
                   last_request_time, req, gate, resp, prev>>

\* lines 125-156 and the callers' steps: the transport returns a response
Receive ==
    /\ pc = "wait"
    /\ \E r \in Responses :
         /\ resp' = r
         /\ call_out' = Layers(CheckStatus(r), req.block_name)
         /\ pc' = after_request(CheckStatus(r))
         /\ prev' = [how |-> IF r.status >= 400 THEN "error status" ELSE "success",
                     end |-> now]
    /\ last_request_time' = record_request_time(send_time, now)
    /\ UNCHANGED <<parse_vars, rest_vars, now, sleep_real, rate_limit, req,
                   gate, send_time, sent>>

\* lines 158-162: the transport raises
TransportFails ==
    /\ pc = "wait"
    /\ \E e \in TransportErrors :
         /\ resp' = [NoResp EXCEPT !.exc = e]
         /\ call_out' = Layers(OnRequestException(e), req.block_name)
         /\ pc' = after_request(OnRequestException(e))
    /\ prev' = [how |-> "transport failure", end |-> now]
    /\ UNCHANGED <<parse_vars, rest_vars, now, sleep_real, rate_limit,
                   last_request_time, req, gate, send_time, sent>>

Next == Tick \/ Call \/ EnforceRateLimit \/ Send \/ Receive \/ TransportFails

Spec == Init /\ [][Next]_vars

----------------------------------------------------------------------------
(* The parser applied to a document.                                        *)

ClientInit ==
    /\ ClientIdle
    /\ sleep_real = TRUE
    /\ rate_limit = RATE_LIMIT

ParseInit ==
    /\ response_data \in EmptyDocuments
    /\ parse_out = NotCalled
    /\ FramesIdle
    /\ ClientInit
    /\ RestIdle

Building ==
    /\ parse_out.kind = "none"
    /\ response_data.kind = "dict"

LastIs(items, content) ==
    [items EXCEPT ![Len(items)] = [name |-> items[Len(items)].name,
                                   content |-> content]]

AddEntry ==
    /\ Building
    /\ Len(response_data.items) < Len(BlockNames)
    /\ \E content \in NewContents :
         /\ WellShaped(content)
         /\ response_data' =
              [response_data EXCEPT !.items =
                 Append(@, [name |-> BlockNames[Len(@) + 1],
                            content |-> content])]
    /\ UNCHANGED <<parse_out, frame_out, norm_out, client_vars, rest_vars>>

AddColumn ==
    /\ Building
    /\ Len(response_data.items) > 0
    /\ TotalCols(response_data) < MaxCols
    /\ LET last == response_data.items[Len(response_data.items)].content IN
         /\ last.kind = "dict"
         /\ last.columns.kind = "list"
         /\ \E name \in ColNames :
              response_data' =
                [response_data EXCEPT !.items =
                   LastIs(@, [last EXCEPT !.columns =
                                 PyList(Append(last.columns.elems, name))])]
    /\ UNCHANGED <<parse_out, frame_out, norm_out, client_vars, rest_vars>>

AddRow ==
    /\ Building
    /\ Len(response_data.items) > 0
    /\ TotalRows(response_data) < MaxRows
    /\ LET bi == Len(response_data.items)
           last == response_data.items[bi].content IN
         /\ last.kind = "dict"
         /\ last.data.kind = "list"
         /\ \E len \in RowShapes :
              response_data' =
                [response_data EXCEPT !.items =
                   LastIs(@, [last EXCEPT !.data =
                                 PyList(Append(last.data.elems,
                                    Row(bi, Len(last.data.elems) + 1, len)))])]
    /\ UNCHANGED <<parse_out, frame_out, norm_out, client_vars, rest_vars>>

ParseJsonResponse ==
    /\ parse_out.kind = "none"
    /\ parse_out' = parse_json_response(response_data)
    /\ UNCHANGED <<response_data, frame_out, norm_out, client_vars, rest_vars>>

\* the block_name arguments of response_to_dataframe: None, the names of
\* the document's entries and a name no document has
FrameBlockNames ==
    {[some |-> FALSE, v |-> ""]}
    \cup {[some |-> TRUE, v |-> name] : name \in {"b1", "b2", "zz"}}

\* the Normalization Specs normalize_dataframe is called with: the empty
\* one, and one list or the index naming a column
NormSpecs ==
    {EmptyNormSpec,
     NormSpec(<<"a">>, <<>>, <<>>, NoColumn),
     NormSpec(<<>>, <<"a", "zz">>, <<>>, NoColumn),
     NormSpec(<<>>, <<>>, <<"b">>, NoColumn),
     NormSpec(<<>>, <<>>, <<>>, [some |-> TRUE, v |-> "a"]),
     NormSpec(<<>>, <<>>, <<>>, [some |-> TRUE, v |-> "zz"])}

\* response_to_dataframe is given what the parser returned
ResponseToDataframe ==
    /\ parse_out.kind = "ok"
    /\ frame_out.out.kind = "none"
    /\ \E block_name \in FrameBlockNames :
         frame_out' = [block_name |-> block_name,
                       out |-> response_to_dataframe(parse_out.result, block_name)]
    /\ UNCHANGED <<response_data, parse_out, norm_out, client_vars, rest_vars>>

\* normalize_dataframe is given the table of one block
NormalizeDataframe ==
    /\ frame_out.out.kind = "ok"
    /\ frame_out.block_name.some
    /\ norm_out.out.kind = "none"
    /\ \E spec \in NormSpecs :
         norm_out' = [spec |-> spec,
                      out |-> Returned(normalize_dataframe(frame_out.out.result, spec))]
    /\ UNCHANGED <<response_data, parse_out, frame_out, client_vars, rest_vars>>

ParseNext ==
    \/ AddEntry
    \/ AddColumn
    \/ AddRow
    \/ ParseJsonResponse
    \/ ResponseToDataframe
    \/ NormalizeDataframe

SpecParse == ParseInit /\ [][ParseNext]_vars

----------------------------------------------------------------------------
(* Properties of parse_json_response.                                       *)

Parsed == parse_out.kind # "none"

DataBlocks(doc) ==
    {i \in 1..Len(doc.items) : IsDataBlock(doc.items[i].content)}

\* every row of every data block is as long as the block's `columns`
LengthMatched(doc) ==
    /\ doc.kind = "dict"
    /\ \A i \in DataBlocks(doc) :
         LET c == doc.items[i].content IN
         /\ c.columns.kind = "list"
         /\ c.data.kind = "list"
         /\ \A ri \in 1..Len(c.data.elems) :
              /\ c.data.elems[ri].kind = "list"
              /\ Len(c.data.elems[ri].elems) = Len(c.columns.elems)

DistinctColumns(doc) ==
    \A i \in DataBlocks(doc) :
       LET cols == doc.items[i].content.columns.elems IN
       \A x, y \in 1..Len(cols) : cols[x] = cols[y] => x = y

\* the rows the claim promises for a block: one per source row, in source
\* order, pairing the columns with the row's values position by position
AlignedRows(c) ==
    [ri \in 1..Len(c.data.elems) |->
        [ci \in 1..Len(c.columns.elems) |->
            <<c.columns.elems[ci], c.data.elems[ri].elems[ci]>>]]

GivesAlignedRows ==
    /\ parse_out.kind = "ok"
    /\ \A i \in DataBlocks(response_data) :
         \E k \in 1..Len(parse_out.result) :
            /\ parse_out.result[k][1] = response_data.items[i].name
            /\ parse_out.result[k][2] = AlignedRows(response_data.items[i].content)

\* C1 as stated: whenever every row of every data block is as long as the
\* block's columns, the parser returns for each data block one row per source
\* row, in order, keyed by the columns in column order with aligned values.
C1_AsStated ==
    (Parsed /\ LengthMatched(response_data)) => GivesAlignedRows

\* C1 amended: the same, for documents whose blocks each use pairwise
\* distinct column names.
C1_AlignedRows ==
    (Parsed /\ LengthMatched(response_data) /\ DistinctColumns(response_data))
        => GivesAlignedRows

\* C1: a parsed block with two distinct columns and two matching rows
C1_Witness ==
    /\ Parsed
    /\ LengthMatched(response_data)
    /\ DistinctColumns(response_data)
    /\ \E i \in DataBlocks(response_data) :
         /\ Len(response_data.items[i].content.columns.elems) = 2
         /\ Len(response_data.items[i].content.data.elems) = 2

\* some row of some data block is a list whose length differs from the
\* length of the block's column list
BadRowAt(doc, i, ri) ==
    LET c == doc.items[i].content IN
    /\ c.columns.kind = "list"
    /\ c.data.kind = "list"
    /\ ri \in 1..Len(c.data.elems)
    /\ c.data.elems[ri].kind = "list"
    /\ Len(c.data.elems[ri].elems) # Len(c.columns.elems)

HasBadRow(doc) ==
    /\ doc.kind = "dict"
    /\ \E i \in DataBlocks(doc) : \E ri \in 1..MaxRows + 1 : BadRowAt(doc, i, ri)

\* C2: a row whose length differs from its block's columns makes the parser
\* fail with a MoexParsingError and return nothing, wherever the row is.
C2_BadRowFails ==
    (Parsed /\ HasBadRow(response_data)) =>
        /\ parse_out.kind = "raise"
        /\ parse_out.error.type = "MoexParsingError"
        /\ parse_out.result = <<>>

\* C2: the bad row is in the second block, after a first block that parsed
C2_Witness ==
    /\ Parsed
    /\ Len(response_data.items) = 2
    /\ IsDataBlock(response_data.items[1].content)
    /\ IsDataBlock(response_data.items[2].content)
    /\ Len(response_data.items[1].content.data.elems) = 1
    /\ ~BadRowAt(response_data, 1, 1)
    /\ ParseBlock(response_data.items[1].content).kind = "ok"
    /\ BadRowAt(response_data, 2, 1)
    /\ parse_out.kind = "raise"

NotSequences(doc) ==
    \/ doc.kind # "dict"
    \/ \E i \in DataBlocks(doc) :
         LET c == doc.items[i].content IN
         \/ c.columns.kind # "list"
         \/ c.data.kind # "list"
         \/ \E ri \in 1..Len(c.data.elems) : c.data.elems[ri].kind # "list"

\* C9 as stated: a top level that is no mapping, or a block whose columns,
\* data or rows are no sequences, makes the parser fail with a
\* MoexParsingError wrapping the lower-level error, and with nothing else.
C9_AsStated ==
    (Parsed /\ NotSequences(response_data)) =>
        /\ parse_out.kind = "raise"
        /\ parse_out.error.type = "MoexParsingError"
        /\ parse_out.error.original_error # ""

----------------------------------------------------------------------------
(* Properties of the client.                                                *)

\* the call in progress has received a response
GotResponse == pc = "done" /\ resp.status # 0

MoexErrors ==
    {"MoexConnectionError", "MoexAuthError", "MoexRateLimitError",
     "MoexResponseError", "MoexParsingError"}

RaisedAs(out, type) == out.kind = "raise" /\ out.error.type = type

CarriesResponse(out) ==
    /\ out.error.status_code = Some(resp.status)
    /\ out.error.response = resp

\* C3 as stated: a response with status s has exactly one outcome: 429
\* raises MoexRateLimitError, 401 and 403 raise MoexAuthError, any other
\* s >= 400 raises MoexResponseError, s < 400 returns the response; each
\* error carries status_code = s and the response.
C3_AsStated ==
    GotResponse =>
        LET out == call_out.request
            s == resp.status
        IN /\ s = 429 => RaisedAs(out, "MoexRateLimitError") /\ CarriesResponse(out)
           /\ s \in {401, 403} => RaisedAs(out, "MoexAuthError") /\ CarriesResponse(out)
           /\ (s >= 400 /\ s \notin {401, 403, 429}) =>
                 RaisedAs(out, "MoexResponseError") /\ CarriesResponse(out)
           /\ s < 400 => out.kind = "ok" /\ out.result = resp

\* the number a Retry-After value is read as: its decimal digits
RECURSIVE Seconds(_)
Seconds(h) ==
    IF h = <<>> THEN 0
    ELSE 10 * Seconds(SubSeq(h, 1, Len(h) - 1)) + DigitValue(h[Len(h)])

\* C4 as stated: a 429 response gives, whatever its Retry-After header, a
\* MoexRateLimitError whose retry_after is the header's duration, or 60
\* when the header is absent.
C4_AsStated ==
    (GotResponse /\ resp.status = 429) =>
        /\ RaisedAs(call_out.request, "MoexRateLimitError")
        /\ ~resp.retry_after.some => call_out.request.error.retry_after = Some(60)
        /\ (resp.retry_after.some /\ resp.retry_after.v # <<>>
              /\ \A i \in 1..Len(resp.retry_after.v) : resp.retry_after.v[i] \in Digits) =>
                call_out.request.error.retry_after = Some(Seconds(resp.retry_after.v))

\* C5 as stated: with a sleep that suspends for the requested time, every
\* request is handed to the transport at least rate_limit after the previous
\* request attempt ended, however that attempt ended.
C5_AsStated ==
    (sleep_real /\ pc = "wait" /\ prev.how # "none") =>
        send_time - prev.end >= rate_limit

C7_AsStated ==
    (GotResponse /\ gate.last = 0 /\ gate.now < last_request_time
        /\ last_request_time < rate_limit) =>
            gate.slept = <<rate_limit - last_request_time>>

RaisesOnlyMoexErrors(out) ==
    out.kind = "raise" => out.error.type \in MoexErrors

\* C8 as stated: whatever get_json, get_data or get_dataframe raise is one
\* of the MoexApiError kinds, for every method, transport outcome, status,
\* header and body.
C8_AsStated ==
    pc = "done" =>
        /\ RaisesOnlyMoexErrors(call_out.json)
        /\ RaisesOnlyMoexErrors(call_out.data)
        /\ RaisesOnlyMoexErrors(call_out.dataframe)

WrapsTransportError(out) ==
    /\ RaisedAs(out, "MoexConnectionError")
    /\ out.error.original_error = resp.exc
    /\ out.error.response = NoResp

\* C10: a transport failure reaches the caller as a MoexConnectionError
\* whose original_error is the transport's exception; no response is
\* returned and no other error is raised.
C10_ConnectionError ==
    (pc = "done" /\ resp.exc # "") =>
        /\ WrapsTransportError(call_out.request)
        /\ WrapsTransportError(call_out.json)
        /\ WrapsTransportError(call_out.data)
        /\ WrapsTransportError(call_out.dataframe)

\* C10: a call whose transport timed out
C10_Witness ==
    /\ pc = "done"
    /\ resp.exc = "Timeout"
    /\ call_out.dataframe.kind = "raise"

\* the error of test_invalid_json: the body's text and the decode error
JsonDecodeFailure(out) ==
    /\ RaisedAs(out, "MoexParsingError")
    /\ out.error.message = "Failed to parse JSON response"
    /\ out.error.data = TextData(resp.body.text)
    /\ out.error.original_error = "JSONDecodeError"
    /\ out.result = <<>>

\* C11: a response with a status below 400 whose body is no JSON makes
\* get_json, get_data and get_dataframe fail with the MoexParsingError
\* 'Failed to parse JSON response' that carries the body's text and the
\* decode error; nothing is returned.
C11_InvalidJson ==
    (GotResponse /\ resp.status < 400 /\ ~resp.body.is_json) =>
        /\ call_out.request.kind = "ok"
        /\ JsonDecodeFailure(call_out.json)
        /\ JsonDecodeFailure(call_out.data)
        /\ JsonDecodeFailure(call_out.dataframe)

\* C11: the response of test_invalid_json
C11_Witness ==
    /\ GotResponse
    /\ resp.status = 200
    /\ resp.body = TextBody("This is not JSON")
    /\ call_out.dataframe.kind = "raise"

----------------------------------------------------------------------------
(* Two threads that call through one client instance                        *)
(* (advanced-example.py:87-104): each thread runs _make_request on its own, *)
(* and rate_limit and last_request_time are the instance's.                 *)

ParseIdle ==
    /\ response_data = [kind |-> "dict", items |-> <<>>]
    /\ parse_out = NotCalled
    /\ FramesIdle

ThreadsInit ==
    /\ ClientIdle
    /\ sleep_real = TRUE
    /\ rate_limit \in {InitRateLimit(arg) : arg \in RateLimitArgs}
    /\ ParseIdle
    /\ RestIdle

ThreadUnchanged ==
    UNCHANGED <<parse_vars, sleep_real, rate_limit, pc, req, gate, send_time,
                resp, call_out, prev, sent, batch, date_in, date_out,
                more_vars>>

ThreadTick ==
    /\ now < MaxTime
    /\ now' = now + 1
    /\ UNCHANGED <<threads, last_request_time>>
    /\ ThreadUnchanged

\* a thread enters a request method of the client
ThreadCall(t) ==
    /\ threads[t].pc \in {"idle", "done"}
    /\ threads' = [threads EXCEPT ![t] = [IdleThread EXCEPT !.pc = "gate"]]
    /\ UNCHANGED <<now, last_request_time>>
    /\ ThreadUnchanged

\* client.py:105 and 68-73: the thread reads the clock and last_request_time
\* and, when it has to wait, enters time.sleep
ThreadGate(t) ==
    /\ threads[t].pc = "gate"
    /\ LET g == enforce_rate_limit(rate_limit, last_request_time, now) IN
         threads' = [threads EXCEPT ![t] =
            [@ EXCEPT !.gate = g,
                      !.pc = IF g.slept # <<>> THEN "sleep" ELSE "send",
                      !.wake = IF g.slept # <<>> THEN now + g.slept[1] ELSE now]]
    /\ UNCHANGED <<now, last_request_time>>
    /\ ThreadUnchanged

\* client.py:73: time.sleep returns when the time asked for has passed
ThreadWake(t) ==
    /\ threads[t].pc = "sleep"
    /\ now >= threads[t].wake
    /\ threads' = [threads EXCEPT ![t].pc = "send"]
    /\ UNCHANGED <<now, last_request_time>>
    /\ ThreadUnchanged

\* client.py:125: the request is handed to the transport
ThreadSend(t) ==
    /\ threads[t].pc = "send"
    /\ threads' = [threads EXCEPT ![t].pc = "wait", ![t].send_time = now]
    /\ UNCHANGED <<now, last_request_time>>
    /\ ThreadUnchanged

\* what _make_request does with the transport's responses: return or raise
ResponseOutcomes == {CheckStatus(r).kind : r \in Responses}

\* client.py:125-156: the transport returns and the time is recorded
ThreadReceive(t) ==
    /\ threads[t].pc = "wait"
    /\ \E out \in ResponseOutcomes :
         threads' = [threads EXCEPT ![t].pc = "done", ![t].out = out]
    /\ last_request_time' = now
    /\ UNCHANGED now
    /\ ThreadUnchanged

\* client.py:158-162: the transport raises
ThreadTransportFails(t) ==
    /\ threads[t].pc = "wait"
    /\ \E e \in TransportErrors :
         threads' = [threads EXCEPT ![t].pc = "done",
                                    ![t].out = OnRequestException(e).kind]
    /\ UNCHANGED <<now, last_request_time>>
    /\ ThreadUnchanged

ThreadsNext ==
    \/ ThreadTick
    \/ \E t \in Threads :
         \/ ThreadCall(t)
         \/ ThreadGate(t)
         \/ ThreadWake(t)
         \/ ThreadSend(t)
         \/ ThreadReceive(t)
         \/ ThreadTransportFails(t)

SpecThreads == ThreadsInit /\ [][ThreadsNext]_vars

\* the thread's request has been handed to the transport
ThreadSent(t) == threads[t].pc \in {"wait", "done"}

Distance(a, b) == IF a < b THEN b - a ELSE a - b

\* C12: the gate orders a thread's request only against the
\* last_request_time the thread read: every request is sent at least
\* rate_limit after that value, and the gate changes nothing another thread
\* could see, so a thread that reads the same value is held no longer.
C12_GateReadsOnlyRecordedTime ==
    \A t \in Threads :
       ThreadSent(t) =>
          threads[t].send_time - threads[t].gate.last >= rate_limit

\* C12: both threads read the same last_request_time, recorded by an earlier
\* response, and their two requests are in flight less than rate_limit apart
C12_Witness ==
    /\ \A t \in Threads : threads[t].pc = "wait"
    /\ threads["t1"].gate.last = threads["t2"].gate.last
    /\ threads["t1"].gate.last > 0
    /\ Distance(threads["t1"].send_time, threads["t2"].send_time) < rate_limit

----------------------------------------------------------------------------
(* No retry.                                                                *)

\* C13: a call of get_json, get_data or get_dataframe hands at most one
\* request to the transport; a call that ended with a response (a 429 with
\* Retry-After among them) or with a transport failure has handed over
\* exactly one.
C13_NoRetry ==
    /\ sent <= 1
    /\ (pc = "done" /\ (resp.status # 0 \/ resp.exc # "")) => sent = 1

\* C13: a call that ended with a 429 carrying a Retry-After of 0 seconds
C13_Witness ==
    /\ pc = "done"
    /\ resp.status = 429
    /\ resp.retry_after = [some |-> TRUE, v |-> <<"0">>]
    /\ RaisedAs(call_out.dataframe, "MoexRateLimitError")
    /\ sent = 1

----------------------------------------------------------------------------
(* endpoints.py: get_market_data_snapshot.                                  *)

\* the longest list of tickers
MaxTickers == 2

Tickers == {"SBER", "GAZP"}

TickerLists == UNION {[1..n -> Tickers] : n \in 0..MaxTickers}

\* the value a ticker has as a cell of the TICKER column
TickerCell(ticker) == IF ticker = "SBER" THEN 1001 ELSE 1002

\* a response document with the one block `name`
NamedBlock(name, cols, rowlens) ==
    [kind |-> "dict",
     items |-> <<[name |-> name,
                  content |-> Block({"columns", "data"}, PyList(cols),
                     PyList([ri \in 1..Len(rowlens) |-> Row(1, ri, rowlens[ri])]))]>>]

\* what the server answers to a market data request: a 429 with any
\* Retry-After header, a 404, and a 200 whose body is no JSON, a JSON array,
\* a document with a marketdata block of one row, of no row, of a short row,
\* or a document without the block
SnapshotResponses ==
    {Response(429, h, NoBody) : h \in RetryAfterHeaders}
    \cup {Response(404, NoHeader, NoBody)}
    \cup {Response(200, NoHeader, b) :
            b \in {TextBody("This is not JSON"),
                   JsonBody("[]", [kind |-> "list", items |-> <<>>]),
                   JsonBody("{marketdata: [[1, 2]]}",
                            NamedBlock("marketdata", <<"LAST", "OPEN">>, <<2>>)),
                   JsonBody("{marketdata: []}",
                            NamedBlock("marketdata", <<"LAST", "OPEN">>, <<>>)),
                   JsonBody("{marketdata: [[1]]}",
                            NamedBlock("marketdata", <<"LAST", "OPEN">>, <<1>>)),
                   JsonBody("{securities: [[1, 2]]}",
                            NamedBlock("securities", <<"LAST", "OPEN">>, <<2>>))}}

\* df[name] = value: the column is overwritten, or added as the last one
SetColumn(df, name, value) ==
    IF InColumns(df, name)
    THEN [df EXCEPT !.rows =
            [ri \in 1..Len(df.rows) |->
                [df.rows[ri] EXCEPT ![ColumnIndex(df, name)] = value]]]
    ELSE [df EXCEPT !.columns = Append(df.columns, name),
                    !.rows = [ri \in 1..Len(df.rows) |->
                                 Append(df.rows[ri], value)]]

RECURSIVE ConcatColumns(_, _, _)
ConcatColumns(frames, i, cols) ==
    IF i > Len(frames) THEN cols
    ELSE ConcatColumns(frames, i + 1, AddKeys(cols, frames[i].columns, 1))

\* the rows of one table laid out under the columns cols
RowsUnder(df, cols) ==
    [ri \in 1..Len(df.rows) |->
        [ci \in 1..Len(cols) |->
            IF InColumns(df, cols[ci])
            THEN df.rows[ri][ColumnIndex(df, cols[ci])] ELSE Missing]]

RECURSIVE ConcatRows(_, _, _)
ConcatRows(frames, i, cols) ==
    IF i > Len(frames) THEN <<>>
    ELSE RowsUnder(frames[i], cols) \o ConcatRows(frames, i + 1, cols)

\* line 254: pd.concat(all_data, ignore_index=True)
Concat(frames) ==
    LET cols == ConcatColumns(frames, 1, <<>>)
        rows == ConcatRows(frames, 1, cols)
    IN [columns |-> cols, index |-> RangeIndex(Len(rows)), rows |-> rows]

\* line 252: the empty table with the fixed columns
EmptySnapshot ==
    [columns |-> <<"TICKER", "LAST", "CHANGE", "VOLTODAY", "OPEN", "LOW", "HIGH">>,
     index |-> RangeIndex(0), rows |-> <<>>]

\* line 244: except MoexApiError
CaughtBySnapshot(e) ==
    e.type \in {"MoexConnectionError", "MoexAuthError", "MoexRateLimitError",
                "MoexResponseError", "MoexParsingError"}

SnapshotInit ==
    /\ ClientIdle
    /\ sleep_real = TRUE
    /\ rate_limit = RATE_LIMIT
    /\ ParseIdle
    /\ RestIdle

SnapshotUnchanged ==
    UNCHANGED <<parse_vars, sleep_real, rate_limit, pc, req, gate, send_time,
                resp, call_out, prev, sent, threads, date_in, date_out,
                more_vars>>

\* lines 205-226: the call, with its list of tickers
GetMarketDataSnapshot ==
    /\ batch.i = 0
    /\ \E tickers \in TickerLists :
         batch' = [tickers |-> tickers, i |-> 1, all_data |-> <<>>,
                   log |-> <<>>, out |-> NotCalled]
    /\ UNCHANGED <<now, last_request_time>>
    /\ SnapshotUnchanged

\* lines 229-247: one pass of the loop, after client.get_market_data gave
\* df_out for the ticker
LoopBody(b, df_out) ==
    LET ticker == b.tickers[b.i]
        logged == [b EXCEPT !.log = Append(@, df_out.kind)]
    IN IF df_out.kind = "ok"
       THEN [logged EXCEPT !.i = @ + 1,
                           !.all_data = Append(@, SetColumn(df_out.result, "TICKER",
                                                            TickerCell(ticker)))]
       ELSE IF CaughtBySnapshot(df_out.error)
       THEN [logged EXCEPT !.i = @ + 1]
       ELSE [logged EXCEPT !.out = df_out]

\* client.py:404-443 and 75-162 inside the loop: the gate, the request and
\* the transport's answer for the next ticker
FetchTicker ==
    /\ batch.i \in 1..Len(batch.tickers)
    /\ batch.out.kind = "none"
    /\ LET g == enforce_rate_limit(rate_limit, last_request_time, now)
           wake == IF g.slept # <<>> THEN now + g.slept[1] ELSE now
       IN /\ wake <= MaxTime
          /\ now' = wake
          /\ \/ \E r \in SnapshotResponses :
                  /\ last_request_time' = wake
                  /\ batch' = LoopBody(batch,
                        Layers(CheckStatus(r), Some("marketdata")).dataframe)
             \/ \E e \in TransportErrors :
                  /\ UNCHANGED last_request_time
                  /\ batch' = LoopBody(batch,
                        Layers(OnRequestException(e), Some("marketdata")).dataframe)
    /\ SnapshotUnchanged

\* lines 249-254: after the loop
SnapshotReturn ==
    /\ batch.i = Len(batch.tickers) + 1
    /\ batch.out.kind = "none"
    /\ batch' = [batch EXCEPT !.out =
                    Returned(IF batch.all_data = <<>> THEN EmptySnapshot
                             ELSE Concat(batch.all_data))]
    /\ UNCHANGED <<now, last_request_time>>
    /\ SnapshotUnchanged

SnapshotNext == GetMarketDataSnapshot \/ FetchTicker \/ SnapshotReturn

SpecSnapshot == SnapshotInit /\ [][SnapshotNext]_vars

SnapshotOver == batch.out.kind # "none"

\* the tickers whose fetch succeeded, in input order
RECURSIVE Succeeded(_, _, _)
Succeeded(tickers, log, i) ==
    IF i > Len(log) THEN <<>>
    ELSE (IF log[i] = "ok" THEN <<tickers[i]>> ELSE <<>>)
         \o Succeeded(tickers, log, i + 1)

\* the tickers the rows of a table belong to, row by row
TickerColumn(df) ==
    [ri \in 1..Len(df.rows) |-> df.rows[ri][ColumnIndex(df, "TICKER")]]

\* C14 as stated: whatever error the fetch of a ticker produces, the call
\* does not abort: every ticker of the list is fetched and the call returns
\* a table (the empty table with the fixed columns when no fetch succeeded).
C14_AsStated ==
    SnapshotOver =>
        /\ batch.out.kind = "ok"
        /\ Len(batch.log) = Len(batch.tickers)
        /\ Len(batch.all_data) = Len(Succeeded(batch.tickers, batch.log, 1))
        /\ batch.all_data = <<>> => batch.out.result = EmptySnapshot

----------------------------------------------------------------------------
(* Properties of response_to_dataframe and normalize_dataframe.             *)

Framed == frame_out.out.kind # "none"

\* the table of a block's rows: one table row per block row, in order, the
\* columns being the keys of the rows, each cell the row's value for its
\* column; no columns when the block has no rows
IsTableOf(df, rows) ==
    /\ Len(df.rows) = Len(rows)
    /\ df.columns = IF rows = <<>> THEN <<>> ELSE DictKeys(rows[1])
    /\ \A ri \in 1..Len(rows) :
          /\ Len(df.rows[ri]) = Len(df.columns)
          /\ \A ci \in 1..Len(df.columns) :
                df.rows[ri][ci] = rows[ri][ci][2]
    /\ df.index = RangeIndex(Len(rows))

\* C15: given a mapping of blocks and a block name, response_to_dataframe
\* fails with a MoexParsingError that wraps the block-not-found
\* MoexParsingError when the name is no key of the mapping, and otherwise
\* returns the table of exactly that block's rows, also when the block has
\* no rows.
C15_NamedBlock ==
    (Framed /\ frame_out.block_name.some) =>
        IF DictHas(parse_out.result, frame_out.block_name.v)
        THEN /\ frame_out.out.kind = "ok"
             /\ IsTableOf(frame_out.out.result,
                          DictGet(parse_out.result, frame_out.block_name.v))
        ELSE /\ frame_out.out.kind = "raise"
             /\ frame_out.out.error.type = "MoexParsingError"
             /\ frame_out.out.error.message = "Failed to convert response to DataFrame"
             /\ frame_out.out.error.original_error = "MoexParsingError"

\* C15: the block asked for is there and has no rows, beside a block with rows
C15_Witness ==
    /\ Framed
    /\ frame_out.block_name = [some |-> TRUE, v |-> "b2"]
    /\ Len(parse_out.result) = 2
    /\ DictGet(parse_out.result, "b1") # <<>>
    /\ DictGet(parse_out.result, "b2") = <<>>
    /\ frame_out.out.kind = "ok"
    /\ frame_out.out.result.rows = <<>>

\* the names of the blocks of a parsed response that have a row, in order
RECURSIVE NamesWithRows(_, _)
NamesWithRows(parsed, i) ==
    IF i > Len(parsed) THEN <<>>
    ELSE (IF Len(parsed[i][2]) >= 1 THEN <<parsed[i][1]>> ELSE <<>>)
         \o NamesWithRows(parsed, i + 1)

\* C16: given a mapping of blocks and no block name, response_to_dataframe
\* returns a mapping whose keys are exactly the names of the blocks with at
\* least one row, each mapped to the table of that block's rows.
C16_AllBlocks ==
    (Framed /\ ~frame_out.block_name.some) =>
        /\ frame_out.out.kind = "ok"
        /\ DictKeys(frame_out.out.result) = NamesWithRows(parse_out.result, 1)
        /\ \A k \in 1..Len(frame_out.out.result) :
              IsTableOf(frame_out.out.result[k][2],
                        DictGet(parse_out.result, frame_out.out.result[k][1]))

\* C16: a block without rows is left out, the block after it is kept
C16_Witness ==
    /\ Framed
    /\ ~frame_out.block_name.some
    /\ Len(parse_out.result) = 2
    /\ DictGet(parse_out.result, "b1") = <<>>
    /\ Len(DictGet(parse_out.result, "b2")) = 2
    /\ DictKeys(frame_out.out.result) = <<"b2">>

\* the names of the entries of a document that are data blocks, in order
RECURSIVE DataBlockNames(_, _)
DataBlockNames(items, i) ==
    IF i > Len(items) THEN <<>>
    ELSE (IF IsDataBlock(items[i].content) THEN <<items[i].name>> ELSE <<>>)
         \o DataBlockNames(items, i + 1)

\* no data block of the document has a row
NoRows(doc) ==
    \A i \in DataBlocks(doc) :
       /\ doc.items[i].content.data.kind = "list"
       /\ doc.items[i].content.data.elems = <<>>

Normalized == norm_out.out.kind # "none"

----------------------------------------------------------------------------
(* utils.py: format_date and validate_date_range. A string is the sequence  *)
(* of its characters; a date object is its year, month and day.             *)

Date(y, m, d) == [y |-> y, m |-> m, d |-> d]

NoDate == Date(0, 0, 0)

IsLeap(y) == (y % 4 = 0 /\ y % 100 # 0) \/ y % 400 = 0

DaysInMonth(y, m) ==
    IF m = 2 THEN (IF IsLeap(y) THEN 29 ELSE 28)
    ELSE IF m \in {4, 6, 9, 11} THEN 30 ELSE 31

\* datetime.date(y, m, d) exists
ValidDate(y, m, d) ==
    /\ y \in 1..9999
    /\ m \in 1..12
    /\ d \in 1..DaysInMonth(y, m)

RECURSIVE DaysBeforeMonth(_, _)
DaysBeforeMonth(y, m) ==
    IF m <= 1 THEN 0 ELSE DaysInMonth(y, m - 1) + DaysBeforeMonth(y, m - 1)

\* date.toordinal(): the days from 0001-01-01, counted from 1
Ordinal(date) ==
    LET y == date.y - 1 IN
    365 * y + (y \div 4) - (y \div 100) + (y \div 400)
        + DaysBeforeMonth(date.y, date.m) + date.d

DigitChar(n) == <<"0", "1", "2", "3", "4", "5", "6", "7", "8", "9">>[n + 1]

\* the decimal digits of n, without padding
RECURSIVE Decimal(_)
Decimal(n) ==
    IF n < 10 THEN <<DigitChar(n)>>
    ELSE Append(Decimal(n \div 10), DigitChar(n % 10))

RECURSIVE ZeroPad(_, _)
ZeroPad(s, width) == IF Len(s) >= width THEN s ELSE ZeroPad(<<"0">> \o s, width)

AllDigits(s) == \A i \in 1..Len(s) : s[i] \in Digits

\* the parts of s between the occurrences of sep
RECURSIVE Split(_, _, _, _)
Split(s, sep, i, part) ==
    IF i > Len(s) THEN <<part>>
    ELSE IF s[i] = sep THEN <<part>> \o Split(s, sep, i + 1, <<>>)
    ELSE Split(s, sep, i + 1, Append(part, s[i]))

DateParsed(date) == [ok |-> TRUE, date |-> date]
Unparsed == [ok |-> FALSE, date |-> NoDate]

\* a time of day hh:mm:ss
IsTime(s) ==
    /\ Len(s) = 8
    /\ s[3] = ":" /\ s[6] = ":"
    /\ AllDigits(SubSeq(s, 1, 2)) /\ AllDigits(SubSeq(s, 4, 5))
    /\ AllDigits(SubSeq(s, 7, 8))
    /\ DecimalValue(SubSeq(s, 1, 2), 1, 0) < 24
    /\ DecimalValue(SubSeq(s, 4, 5), 1, 0) < 60
    /\ DecimalValue(SubSeq(s, 7, 8), 1, 0) < 60

\* line 59: datetime.fromisoformat on YYYY-MM-DD, alone or followed by one
\* separator character and a time of day
FromIsoFormat(s) ==
    IF /\ Len(s) \in {10, 19}
       /\ s[5] = "-" /\ s[8] = "-"
       /\ AllDigits(SubSeq(s, 1, 4)) /\ AllDigits(SubSeq(s, 6, 7))
       /\ AllDigits(SubSeq(s, 9, 10))
       /\ Len(s) = 19 => IsTime(SubSeq(s, 12, 19))
    THEN LET y == DecimalValue(SubSeq(s, 1, 4), 1, 0)
             m == DecimalValue(SubSeq(s, 6, 7), 1, 0)
             d == DecimalValue(SubSeq(s, 9, 10), 1, 0)
         IN IF ValidDate(y, m, d) THEN DateParsed(Date(y, m, d)) ELSE Unparsed
    ELSE Unparsed

\* the strptime directives: %Y is four digits, %m and %d one or two digits
\* and not zero
MatchesYear(s) == Len(s) = 4 /\ AllDigits(s)

MatchesMonthOrDay(s, max) ==
    /\ Len(s) \in {1, 2}
    /\ AllDigits(s)
    /\ DecimalValue(s, 1, 0) \in 1..max

\* line 63: the formats tried in turn, each a separator and the order of the
\* year, month and day fields
Formats ==
    <<[sep |-> "-", y |-> 1, m |-> 2, d |-> 3],
      [sep |-> ".", y |-> 3, m |-> 2, d |-> 1],
      [sep |-> "/", y |-> 3, m |-> 1, d |-> 2],
      [sep |-> "/", y |-> 1, m |-> 2, d |-> 3]>>

\* lines 65, 114, 115: datetime.strptime(s, fmt)
Strptime(s, fmt) ==
    LET parts == Split(s, fmt.sep, 1, <<>>) IN
    IF /\ Len(parts) = 3
       /\ MatchesYear(parts[fmt.y])
       /\ MatchesMonthOrDay(parts[fmt.m], 12)
       /\ MatchesMonthOrDay(parts[fmt.d], 31)
    THEN LET y == DecimalValue(parts[fmt.y], 1, 0)
             m == DecimalValue(parts[fmt.m], 1, 0)
             d == DecimalValue(parts[fmt.d], 1, 0)
         IN IF ValidDate(y, m, d) THEN DateParsed(Date(y, m, d)) ELSE Unparsed
    ELSE Unparsed

\* lines 63-70: the first format that matches
RECURSIVE TryFormats(_, _)
TryFormats(s, i) ==
    IF i > Len(Formats) THEN Unparsed
    ELSE IF Strptime(s, Formats[i]).ok THEN Strptime(s, Formats[i])
    ELSE TryFormats(s, i + 1)

\* line 78: date_obj.strftime('%Y-%m-%d'). %m and %d are two digits; %Y is
\* what the platform's C library prints for the year: four digits, or the
\* digits of the year without padding (glibc)
Strftime(date, pads_year) ==
    (IF pads_year THEN ZeroPad(Decimal(date.y), 4) ELSE Decimal(date.y))
        \o <<"-">> \o ZeroPad(Decimal(date.m), 2)
        \o <<"-">> \o ZeroPad(Decimal(date.d), 2)

\* the arguments of the date functions: a string, a date object, or a value
\* that is neither
StrValue(s) == [kind |-> "str", chars |-> s, date |-> NoDate]
DateValue(date) == [kind |-> "date", chars |-> <<>>, date |-> date]
OtherValue == [kind |-> "other", chars |-> <<>>, date |-> NoDate]

\* a ValueError; `dates` are the formatted dates its message names
DateError(message, dates) ==
    [Exc("ValueError", message, "") EXCEPT
        !.data = [kind |-> "text", text |-> "",
                  value |-> [kind |-> "dates", items |-> dates]]]

\* lines 56-78
format_date(date_value, pads_year) ==
    IF date_value.kind = "str"
    THEN LET iso == FromIsoFormat(date_value.chars)
             parsed == IF iso.ok THEN iso ELSE TryFormats(date_value.chars, 1)
         IN IF parsed.ok THEN Returned(Strftime(parsed.date, pads_year))
            ELSE Raised(DateError("Invalid date format", <<>>))
    ELSE IF date_value.kind = "date"
    THEN Returned(Strftime(date_value.date, pads_year))
    ELSE Raised(DateError("Expected date string or date object", <<>>))

\* lines 100-130; today is what datetime.date.today() gives
validate_date_range(start_date, end_date, max_interval_days, today, pads_year) ==
    LET end == IF end_date.some THEN end_date.v ELSE DateValue(today)
        formatted_end == format_date(end, pads_year)
    IN IF formatted_end.kind = "raise" THEN formatted_end
       ELSE IF ~start_date.some
       THEN Returned(<<formatted_end.result, formatted_end.result>>)
       ELSE LET formatted_start == format_date(start_date.v, pads_year) IN
            IF formatted_start.kind = "raise" THEN formatted_start
            ELSE LET start_obj == Strptime(formatted_start.result, Formats[1])
                     end_obj == Strptime(formatted_end.result, Formats[1])
                     both == <<formatted_start.result, formatted_end.result>>
                 IN IF ~start_obj.ok \/ ~end_obj.ok
                    THEN Raised(DateError("time data does not match format", <<>>))
                    ELSE IF Ordinal(start_obj.date) > Ordinal(end_obj.date)
                    THEN Raised(DateError("Start date is after end date", both))
                    ELSE IF max_interval_days.some
                            /\ Ordinal(end_obj.date) - Ordinal(start_obj.date)
                                  > max_interval_days.v
                    THEN Raised(DateError("Date range exceeds maximum interval",
                                          both))
                    ELSE Returned(both)

\* the documented shapes of a date string
Shapes == {"iso", "dotted", "us", "slashed", "datetime"}

\* the date written in a shape, every field padded with zeros
Render(shape, date) ==
    LET y == ZeroPad(Decimal(date.y), 4)
        m == ZeroPad(Decimal(date.m), 2)
        d == ZeroPad(Decimal(date.d), 2)
    IN CASE shape = "iso" -> y \o <<"-">> \o m \o <<"-">> \o d
         [] shape = "dotted" -> d \o <<".">> \o m \o <<".">> \o y
         [] shape = "us" -> m \o <<"/">> \o d \o <<"/">> \o y
         [] shape = "slashed" -> y \o <<"/">> \o m \o <<"/">> \o d
         [] shape = "datetime" ->
               y \o <<"-">> \o m \o <<"-">> \o d
                 \o <<"T", "1", "2", ":", "3", "0", ":", "0", "0">>

\* the years, months and days the argument strings are written from; a
\* month 13 and a day 30, 31 or 32 give strings that are no dates
Years == {999, 2023, 2024}
Months == {1, 2, 12, 13}
Days == {1, 29, 30, 32}

Triples == {Date(y, m, d) : y \in Years, m \in Months, d \in Days}

\* strings in none of the shapes: the empty string, a word, dots the wrong
\* way round, a year of three digits
OtherStrings ==
    {<<>>, <<"t", "o", "d", "a", "y">>,
     <<"2", "0", "2", "4", ".", "0", "3", ".", "1", "0">>,
     <<"9", "9", "9", "-", "0", "1", "-", "0", "1">>}

\* the arguments format_date is called with
FormatArgs ==
    {StrValue(Render(shape, date)) : shape \in Shapes, date \in Triples}
    \cup {StrValue(s) : s \in OtherStrings}
    \cup {DateValue(Date(999, 1, 1)), DateValue(Date(2024, 2, 29)), OtherValue}

SomeArg(v) == [some |-> TRUE, v |-> v]

\* the start and end arguments validate_date_range is called with
RangeArgs ==
    {NoArg}
    \cup {SomeArg(StrValue(Render("iso", date))) :
            date \in {Date(999, 1, 1), Date(2024, 1, 1), Date(2024, 3, 10),
                      Date(2024, 2, 30)}}
    \cup {SomeArg(StrValue(Render("dotted", Date(2024, 1, 11)))),
          SomeArg(StrValue(<<"t", "o", "d", "a", "y">>)),
          SomeArg(DateValue(Date(2024, 1, 1)))}

\* the max_interval_days arguments
MaxIntervalArgs == {None, Some(0), Some(10), Some(69)}

\* the days the calls are made on
Todays == {Date(2024, 1, 11)}

DateInit ==
    /\ ClientIdle
    /\ sleep_real = TRUE
    /\ rate_limit = RATE_LIMIT
    /\ ParseIdle
    /\ RestIdle

DateUnchanged == UNCHANGED <<parse_vars, client_vars, threads, batch, more_vars>>

\* format_date(date_value) is called
FormatDate ==
    /\ date_in.op = "none"
    /\ \E v \in FormatArgs, pads_year \in BOOLEAN :
         /\ date_in' = [NoDateIn EXCEPT !.op = "format", !.start = SomeArg(v),
                                        !.pads_year = pads_year]
         /\ date_out' = format_date(v, pads_year)
    /\ DateUnchanged

\* validate_date_range(start_date, end_date, max_interval_days) is called
ValidateDateRange ==
    /\ date_in.op = "none"
    /\ \E start \in RangeArgs, end \in RangeArgs, max \in MaxIntervalArgs,
          today \in Todays, pads_year \in BOOLEAN :
         /\ date_in' = [op |-> "validate", start |-> start, end |-> end,
                        max |-> max, today |-> today, pads_year |-> pads_year]
         /\ date_out' = validate_date_range(start, end, max, today, pads_year)
    /\ DateUnchanged

DateNext == FormatDate \/ ValidateDateRange

SpecDate == DateInit /\ [][DateNext]_vars

----------------------------------------------------------------------------
(* Properties of the date functions.                                        *)

\* the calendar dates of the years 1 to 9999 a string may stand for
WrittenDates ==
    {Date(y, m, d) : y \in Years \cup {1}, m \in 1..12, d \in 1..31}

\* the string is a valid calendar date written in one of the documented
\* shapes
Denotes(s, date) ==
    /\ ValidDate(date.y, date.m, date.d)
    /\ \E shape \in Shapes : s = Render(shape, date)

IsDocumentedDate(s) == \E date \in WrittenDates : Denotes(s, date)

DateDenoted(s) == CHOOSE date \in WrittenDates : Denotes(s, date)

RaisesValueError(out) == out.kind = "raise" /\ out.error.type = "ValueError"

\* C20 as stated: format_date returns the YYYY-MM-DD string of every string
\* that is a valid calendar date in a documented shape, returns a valid
\* YYYY-MM-DD string unchanged, gives the same when applied to its own
\* result, and raises ValueError for every other string.
C20_AsStated ==
    (date_in.op = "format" /\ date_in.start.v.kind = "str") =>
        LET s == date_in.start.v.chars IN
        IF IsDocumentedDate(s)
        THEN /\ date_out.kind = "ok"
             /\ date_out.result = Render("iso", DateDenoted(s))
             /\ format_date(StrValue(date_out.result), date_in.pads_year) = date_out
        ELSE RaisesValueError(date_out)

\* the argument is a date: a date object, or a string that is a valid date
\* in a documented shape
ArgParses(arg) ==
    \/ arg.v.kind = "date"
    \/ arg.v.kind = "str" /\ IsDocumentedDate(arg.v.chars)

ArgDate(arg) ==
    IF arg.v.kind = "date" THEN arg.v.date ELSE DateDenoted(arg.v.chars)

\* C19 as stated: validate_date_range succeeds exactly when the dates given
\* parse, start is not after end and the days between them do not exceed a
\* given maximum; it then returns (start, end) as YYYY-MM-DD strings, both
\* the end when no start is given and the end being today when none is
\* given; otherwise it raises ValueError, for a start after the end with a
\* message that names both dates and the ordering.
C19_AsStated ==
    date_in.op = "validate" =>
        LET parses == /\ date_in.start.some => ArgParses(date_in.start)
                      /\ date_in.end.some => ArgParses(date_in.end)
            end == IF date_in.end.some THEN ArgDate(date_in.end) ELSE date_in.today
            start == IF date_in.start.some THEN ArgDate(date_in.start) ELSE end
            days == Ordinal(end) - Ordinal(start)
            both == <<Render("iso", start), Render("iso", end)>>
        IN IF ~parses THEN RaisesValueError(date_out)
           ELSE IF days < 0
           THEN /\ RaisesValueError(date_out)
                /\ date_out.error.message = "Start date is after end date"
                /\ date_out.error.data.value.items = both
           ELSE IF date_in.max.some /\ date_in.start.some /\ days > date_in.max.v
           THEN RaisesValueError(date_out)
           ELSE /\ date_out.kind = "ok"
                /\ date_out.result = both

----------------------------------------------------------------------------
(* The frame of last_request_time (client.py:122-162).                      *)

\* the step in which the transport hands back a response, of any status
Responded == pc = "wait" /\ resp'.status # 0

\* C26: last_request_time is written exactly in the step in which the
\* transport returns a response, whatever the status, and then holds the
\* clock reading taken after the response arrived; a transport failure, an
\* unsupported method, the gate and every step of parsing leave it as it
\* was; along a run of the one calling thread it never decreases.
C26_RecordedOnResponse ==
    [][/\ Responded => last_request_time' = now'
       /\ ~Responded => last_request_time' = last_request_time
       /\ last_request_time' >= last_request_time]_vars

\* an error status was answered some time after the request was sent, and
\* the time of the answer is the one recorded
C26_Witness ==
    /\ pc = "done"
    /\ resp.status >= 400
    /\ call_out.request.kind = "raise"
    /\ send_time < now
    /\ last_request_time = now

----------------------------------------------------------------------------
(* The constructor and the gate (client.py:48-73): a client is built with   *)
(* a rate_limit argument, and then the gate runs before requests at         *)
(* different times; a caller may assign the attribute (test.py:195).        *)

\* the rate_limit arguments: also 0.1 s and a negative number
ConstructorArgs == RateLimitArgs \cup {Some(1), Some(0 - 1)}

\* the values assigned to client.rate_limit after construction
AssignedRateLimits == {0, 5}

\* lines 62-66: the state __init__(rate_limit = arg) leaves
ConstructInit ==
    /\ ClientIdle
    /\ sleep_real = TRUE
    /\ ParseIdle
    /\ threads = [t \in Threads |-> IdleThread]
    /\ batch = NoBatch
    /\ date_in = NoDateIn
    /\ date_out = NotCalled
    /\ UtilsIdle
    /\ \E arg \in ConstructorArgs :
         /\ built = [DefaultBuilt EXCEPT !.arg = arg]
         /\ rate_limit = InitRateLimit(arg)

ConstructUnchanged ==
    UNCHANGED <<parse_vars, sleep_real, pc, req, send_time, resp, call_out,
                prev, sent, threads, batch, date_in, date_out, url_in,
                url_out, ep>>

\* time passes between two requests
ConstructTick ==
    /\ now < MaxTime
    /\ now' = now + 1
    /\ UNCHANGED <<rate_limit, last_request_time, gate, built>>
    /\ ConstructUnchanged

\* lines 68-73: the gate of a request; it is skipped when line 70 finds
\* rate_limit falsy, and then the clock is not read
ConstructGate ==
    /\ LET g == enforce_rate_limit(rate_limit, last_request_time, now)
           wake == IF g.slept # <<>> THEN now + g.slept[1] ELSE now
       IN /\ wake <= MaxTime
          /\ gate' = g
          /\ now' = wake
          /\ built' = [built EXCEPT !.gated = TRUE,
                                    !.skipped = @ \/ g.reads = 0]
    /\ UNCHANGED <<rate_limit, last_request_time>>
    /\ ConstructUnchanged

\* line 132: a request was answered
ConstructRespond ==
    /\ built.gated
    /\ last_request_time' = record_request_time(now, now)
    /\ UNCHANGED <<now, rate_limit, gate, built>>
    /\ ConstructUnchanged

\* test.py:195: client.rate_limit = value
AssignRateLimit ==
    /\ \E v \in AssignedRateLimits : rate_limit' = v
    /\ built' = [built EXCEPT !.assigned = TRUE]
    /\ UNCHANGED <<now, last_request_time, gate>>
    /\ ConstructUnchanged

ConstructNext ==
    ConstructTick \/ ConstructGate \/ ConstructRespond \/ AssignRateLimit

SpecConstruct == ConstructInit /\ [][ConstructNext]_vars

\* the constructor's argument was None or 0
DefaultedArg == ~built.arg.some \/ built.arg.v = 0

\* C27 as stated: until the attribute is assigned, rate_limit is strictly
\* positive whatever the constructor was given, None and 0 give the default,
\* and no gate is skipped.
C27_AsStated ==
    ~built.assigned =>
        /\ rate_limit > 0
        /\ DefaultedArg => rate_limit = RATE_LIMIT
        /\ ~built.skipped

\* C27, amended: until the attribute is assigned, rate_limit is strictly
\* positive for every constructor argument that is None, 0 or positive
\* (None and 0 give the default, a positive argument is kept), and a negative
\* argument is kept as given; the gate's test of rate_limit is skipped only
\* after the attribute was assigned a falsy value, and with the negative
\* rate_limit the gate runs but never sleeps.
C27_PositiveUnlessNegative ==
    /\ ~built.assigned =>
          /\ DefaultedArg => rate_limit = RATE_LIMIT
          /\ ~DefaultedArg => rate_limit = built.arg.v
          /\ (DefaultedArg \/ built.arg.v > 0) => rate_limit > 0
          /\ rate_limit < 0 => gate.slept = <<>>
    /\ built.skipped => built.assigned

\* a client built with rate_limit = 0 whose gate ran and slept
C27_Witness ==
    /\ ~built.assigned
    /\ built.arg = Some(0)
    /\ built.gated
    /\ gate.reads = 1
    /\ gate.slept # <<>>
    /\ last_request_time > 0

----------------------------------------------------------------------------
(* utils.py: build_url and build_query_params.  A URL is its origin         *)
(* (scheme and host), the segments of its path and whether the path ends    *)
(* with a slash; an endpoint is the segments of its text and whether the    *)
(* text starts with a slash.  A placeholder is a segment of its own.        *)

\* the most entries of a path_params or params mapping
MaxParams == 2

Url(origin, path, slash) == [origin |-> origin, path |-> path, slash |-> slash]

Endpoint(absolute, segments) == [absolute |-> absolute, segments |-> segments]

\* line 35: f"[{key}]"
Placeholder(key) ==
    CASE key = "engine" -> "[engine]"
      [] key = "market" -> "[market]"
      [] key = "board" -> "[board]"
      [] key = "boardgroup" -> "[boardgroup]"
      [] key = "security" -> "[security]"
      [] OTHER -> "[]"

\* line 37: endpoint.replace(placeholder, str(value)), on every occurrence
Replace(segments, placeholder, value) ==
    [i \in 1..Len(segments) |->
        IF segments[i] = placeholder THEN value ELSE segments[i]]

\* lines 34-37: the loop over path_params
RECURSIVE ReplacePlaceholders(_, _, _)
ReplacePlaceholders(segments, path_params, i) ==
    IF i > Len(path_params) THEN segments
    ELSE ReplacePlaceholders(
            Replace(segments, Placeholder(path_params[i][1]), path_params[i][2]),
            path_params, i + 1)

\* urllib.parse.urljoin: '.' is dropped and '..' drops the segment before it
RECURSIVE RemoveDots(_, _, _)
RemoveDots(segments, i, resolved) ==
    IF i > Len(segments) THEN resolved
    ELSE IF segments[i] = ".."
    THEN RemoveDots(segments, i + 1,
                    IF resolved = <<>> THEN resolved
                    ELSE SubSeq(resolved, 1, Len(resolved) - 1))
    ELSE IF segments[i] = "."
    THEN RemoveDots(segments, i + 1, resolved)
    ELSE RemoveDots(segments, i + 1, Append(resolved, segments[i]))

\* urllib.parse.urljoin(base, url) (RFC 3986, 5.2): an empty reference gives
\* the base; a reference that starts with a slash replaces the path of the
\* base; any other reference replaces the last segment of the base's path
\* (nothing, when that path ends with a slash)
urljoin(base, url) ==
    IF url.segments = <<>> /\ ~url.absolute THEN base
    ELSE LET dir == IF base.slash \/ base.path = <<>> THEN base.path
                    ELSE SubSeq(base.path, 1, Len(base.path) - 1)
             segments == IF url.absolute THEN url.segments
                         ELSE dir \o url.segments
         IN Url(base.origin, RemoveDots(segments, 1, <<>>),
                segments = <<>>
                  \/ (segments # <<>> /\ segments[Len(segments)] \in {".", ".."}))

\* lines 33-40
build_url(base_url, endpoint, path_params) ==
    urljoin(base_url,
            Endpoint(endpoint.absolute,
                     ReplacePlaceholders(endpoint.segments, path_params, 1)))

\* the values of a params mapping: None, a bool, an int, a str, or a list
\* of such values
NoneParam == [kind |-> "none", b |-> FALSE, n |-> 0, s |-> <<>>, items |-> <<>>]
BoolParam(b) == [NoneParam EXCEPT !.kind = "bool", !.b = b]
IntParam(n) == [NoneParam EXCEPT !.kind = "int", !.n = n]
StrParam(s) == [NoneParam EXCEPT !.kind = "str", !.s = s]
ListParam(items) == [NoneParam EXCEPT !.kind = "list", !.items = items]

\* Python's str() of a value that is no list
Str(value) ==
    CASE value.kind = "none" -> <<"N", "o", "n", "e">>
      [] value.kind = "bool" ->
            IF value.b THEN <<"T", "r", "u", "e">> ELSE <<"F", "a", "l", "s", "e">>
      [] value.kind = "int" ->
            IF value.n < 0 THEN <<"-">> \o Decimal(0 - value.n) ELSE Decimal(value.n)
      [] value.kind = "str" -> value.s

\* sep.join(strs)
RECURSIVE Join(_, _)
Join(strs, sep) ==
    IF strs = <<>> THEN <<>>
    ELSE IF Len(strs) = 1 THEN strs[1]
    ELSE strs[1] \o sep \o Join(Tail(strs), sep)

\* a conversion without the branch for booleans
ConvertParamWithoutBool(value) ==
    IF value.kind = "list"
    THEN Join([i \in 1..Len(value.items) |-> Str(value.items[i])], <<",">>)
    ELSE Str(value)

\* lines 149-157: the string a value that is not None is sent as
ConvertParam(value) ==
    IF value.kind = "list"
    THEN Join([i \in 1..Len(value.items) |-> Str(value.items[i])], <<",">>)
    ELSE IF value.kind = "bool"
    THEN IF value.b THEN <<"1">> ELSE <<"0">>
    ELSE Str(value)

\* lines 143-159: the loop over params.items()
RECURSIVE build_query_params_from(_, _, _)
build_query_params_from(params, i, result) ==
    IF i > Len(params) THEN result
    ELSE IF params[i][2].kind = "none"
    THEN build_query_params_from(params, i + 1, result)
    ELSE build_query_params_from(
            params, i + 1, DictSet(result, params[i][1], ConvertParam(params[i][2])))

build_query_params(params) == build_query_params_from(params, 1, <<>>)

\* client.py:44 BASE_URL, the same with a slash at the end, and a base
\* without a path
BaseUrls ==
    {Url("https://iss.moex.com", <<"iss">>, FALSE),
     Url("https://iss.moex.com", <<"iss">>, TRUE),
     Url("https://iss.moex.com", <<>>, FALSE)}

\* endpoint templates of client.py (lines 372, 363, 400), one with a
\* placeholder twice, one without the slash in front, and the empty one
EndpointTemplates ==
    {Endpoint(TRUE, <<"engines", "[engine]", "markets", "[market]", "securities">>),
     Endpoint(TRUE, <<"securities">>),
     Endpoint(TRUE, <<"securities", "[security]">>),
     Endpoint(TRUE, <<"engines", "[engine]", "[engine]">>),
     Endpoint(FALSE, <<"engines", "[engine]">>),
     Endpoint(FALSE, <<>>)}

PathKeys == {"engine", "market", "security"}
PathValues == {"stock", "shares", ".."}

\* the mappings with at most n entries, as sequences of items with
\* distinct keys
Dicts(keys, values, n) ==
    UNION {{d \in [1..k -> keys \X values] :
              \A i, j \in 1..k : d[i][1] = d[j][1] => i = j} : k \in 0..n}

ParamKeys == {"interval", "columns", "q"}

ParamValues ==
    {NoneParam, BoolParam(TRUE), BoolParam(FALSE), IntParam(24), IntParam(0),
     StrParam(<<"T", "Q", "B", "R">>), StrParam(<<>>),
     ListParam(<<>>),
     ListParam(<<StrParam(<<"a">>), StrParam(<<"b">>)>>),
     ListParam(<<IntParam(1), BoolParam(TRUE)>>),
     ListParam(<<NoneParam>>)}

UrlInit ==
    /\ ClientIdle
    /\ sleep_real = TRUE
    /\ rate_limit = RATE_LIMIT
    /\ ParseIdle
    /\ RestIdle

UrlUnchanged ==
    UNCHANGED <<parse_vars, client_vars, threads, batch, date_in, date_out,
                built, ep>>

\* build_url(base_url, endpoint, **path_params) is called
BuildUrl ==
    /\ url_in.op = "none"
    /\ \E base \in BaseUrls, endpoint \in EndpointTemplates,
          path_params \in Dicts(PathKeys, PathValues, MaxParams) :
         /\ url_in' = [NoUrlIn EXCEPT !.op = "build_url", !.base = base,
                                      !.endpoint = endpoint,
                                      !.path_params = path_params]
         /\ url_out' = Returned(build_url(base, endpoint, path_params))
    /\ UrlUnchanged

\* build_query_params(params) is called
BuildQueryParams ==
    /\ url_in.op = "none"
    /\ \E params \in Dicts(ParamKeys, ParamValues, MaxParams) :
         /\ url_in' = [NoUrlIn EXCEPT !.op = "build_query_params",
                                      !.params = params]
         /\ url_out' = Returned(build_query_params(params))
    /\ UrlUnchanged

UrlNext == BuildUrl \/ BuildQueryParams

SpecUrl == UrlInit /\ [][UrlNext]_vars

----------------------------------------------------------------------------
(* Properties of the URL functions.                                         *)

\* the value supplied for a placeholder, or the placeholder itself
Supplied(segment, path_params) ==
    IF \E i \in 1..Len(path_params) : Placeholder(path_params[i][1]) = segment
    THEN path_params[CHOOSE i \in 1..Len(path_params) :
                        Placeholder(path_params[i][1]) = segment][2]
    ELSE segment

\* C23 as stated: for an endpoint that starts with a slash, build_url
\* returns the base URL, its own path kept, followed by the endpoint with
\* every supplied placeholder replaced by its value.
C23_AsStated ==
    (url_in.op = "build_url" /\ url_in.endpoint.absolute) =>
        url_out.result =
            Url(url_in.base.origin,
                url_in.base.path
                  \o [i \in 1..Len(url_in.endpoint.segments) |->
                        Supplied(url_in.endpoint.segments[i], url_in.path_params)],
                FALSE)

\* the items of params whose value is not None
RECURSIVE NonNull(_, _)
NonNull(params, i) ==
    IF i > Len(params) THEN <<>>
    ELSE IF params[i][2].kind = "none" THEN NonNull(params, i + 1)
    ELSE <<params[i]>> \o NonNull(params, i + 1)

\* C24: build_query_params returns a mapping whose keys are the input keys
\* with a non-null value and whose values are strings: a list gives its
\* elements' string forms joined by commas in order, a boolean gives "1"
\* or "0" and never "True" or "False", any other value its string form.
C24_QueryParams ==
    url_in.op = "build_query_params" =>
        LET given == NonNull(url_in.params, 1)
            out == url_out.result
        IN /\ url_out.kind = "ok"
           /\ Len(out) = Len(given)
           /\ \A i \in 1..Len(given) :
                LET value == given[i][2] IN
                /\ out[i][1] = given[i][1]
                /\ \A j \in 1..Len(out[i][2]) : out[i][2][j] \in STRING
                /\ value.kind = "list" =>
                      out[i][2] = Join([j \in 1..Len(value.items) |->
                                          Str(value.items[j])], <<",">>)
                /\ value.kind = "bool" =>
                      /\ out[i][2] = (IF value.b THEN <<"1">> ELSE <<"0">>)
                      /\ out[i][2] \notin {Str(BoolParam(TRUE)), Str(BoolParam(FALSE))}
                /\ value.kind \notin {"list", "bool"} => out[i][2] = Str(value)

\* a mapping with a None, a boolean and a list of two elements was converted
C24_Witness ==
    /\ url_in.op = "build_query_params"
    /\ Len(url_in.params) = 2
    /\ url_in.params[1][2] = BoolParam(TRUE)
    /\ url_in.params[2][2].kind = "list"
    /\ Len(url_in.params[2][2].items) = 2
    /\ url_out.result = <<<<url_in.params[1][1], <<"1">>>>,
                          <<url_in.params[2][1], <<"a", ",", "b">>>>>>

----------------------------------------------------------------------------
(* client.py and endpoints.py: the endpoint methods.  A method checks its   *)
(* arguments and then calls get_dataframe(endpoint, path_params, params,    *)
(* block_name); what it hands to get_dataframe is its plan.                 *)

\* the longest list of interval names
MaxIntervals == 2

\* the arguments of the call of get_dataframe
Plan(endpoint, path_params, params, block_name) ==
    [NoPlan EXCEPT !.kind = "request", !.endpoint = endpoint,
                   !.path_params = path_params, !.params = params,
                   !.block_name = block_name]

\* the method raised before it called get_dataframe
Refused(e) == [NoPlan EXCEPT !.kind = "raise", !.error = e]

\* client.py:562 and 635: {"from": from_date, "till": till_date}
DateParams(dates) ==
    <<<<"from", StrParam(dates[1])>>, <<"till", StrParam(dates[2])>>>>

\* client.py:560 and 633: if start_date or end_date
DatesGiven(start_date, end_date) == TruthyDate(start_date) \/ TruthyDate(end_date)

\* client.py:559-564 and 632-637: Returned(<<>>) stands for no date_params
ValidatedDates(start_date, end_date, today, pads_year) ==
    IF DatesGiven(start_date, end_date)
    THEN validate_date_range(start_date, end_date, None, today, pads_year)
    ELSE Returned(<<>>)

CandlesOfBoard ==
    Endpoint(TRUE, <<"engines", "[engine]", "markets", "[market]", "boards",
                     "[board]", "securities", "[security]", "candles">>)
CandlesOfBoardGroup ==
    Endpoint(TRUE, <<"engines", "[engine]", "markets", "[market]", "boardgroups",
                     "[boardgroup]", "securities", "[security]", "candles">>)
CandlesOfSecurity ==
    Endpoint(TRUE, <<"engines", "[engine]", "markets", "[market]",
                     "securities", "[security]", "candles">>)

\* client.py:559-603, with the outcome of the validation of lines 559-564
CandlesPlan(security_id, engine, market, interval, board, board_group, validated) ==
    IF validated.kind = "raise" THEN Refused(validated.error)
    ELSE LET date_params == IF validated.result = <<>> THEN <<>>
                            ELSE DateParams(validated.result)
             params == <<<<"interval", IntParam(interval)>>>> \o date_params
         IN IF TruthyStr(board)
            THEN Plan(CandlesOfBoard,
                      <<<<"engine", engine>>, <<"market", market>>,
                        <<"board", board.v>>, <<"security", security_id>>>>,
                      params, "candles")
            ELSE IF TruthyStr(board_group)
            THEN Plan(CandlesOfBoardGroup,
                      <<<<"engine", engine>>, <<"market", market>>,
                        <<"boardgroup", board_group.v>>,
                        <<"security", security_id>>>>,
                      params, "candles")
            ELSE Plan(CandlesOfSecurity,
                      <<<<"engine", engine>>, <<"market", market>>,
                        <<"security", security_id>>>>,
                      params, "candles")

get_candles(security_id, engine, market, interval, start_date, end_date, board, board_group, today, pads_year) ==
    CandlesPlan(security_id, engine, market, interval, board, board_group,
                ValidatedDates(start_date, end_date, today, pads_year))

HistoryOfBoard ==
    Endpoint(TRUE, <<"history", "engines", "[engine]", "markets", "[market]",
                     "boards", "[board]", "securities", "[security]">>)
HistoryOfSecurity ==
    Endpoint(TRUE, <<"history", "engines", "[engine]", "markets", "[market]",
                     "securities", "[security]">>)
HistoryOfBoardSecurities ==
    Endpoint(TRUE, <<"history", "engines", "[engine]", "markets", "[market]",
                     "boards", "[board]", "securities">>)

\* client.py:632-668, with the outcome of the validation of lines 632-637
HistoryPlan(security_id, engine, market, board, columns, validated) ==
    IF validated.kind = "raise" THEN Refused(validated.error)
    ELSE LET date_params == IF validated.result = <<>> THEN <<>>
                            ELSE DateParams(validated.result)
             params == IF TruthyText(columns)
                       THEN date_params \o <<<<"columns", ListParam(columns.v)>>>>
                       ELSE date_params
         IN IF TruthyStr(board)
            THEN Plan(HistoryOfBoard,
                      <<<<"engine", engine>>, <<"market", market>>,
                        <<"board", board.v>>, <<"security", security_id>>>>,
                      params, "history")
            ELSE Plan(HistoryOfSecurity,
                      <<<<"engine", engine>>, <<"market", market>>,
                        <<"security", security_id>>>>,
                      params, "history")

get_market_history(security_id, engine, market, start_date, end_date, board, columns, today, pads_year) ==
    HistoryPlan(security_id, engine, market, board, columns,
                ValidatedDates(start_date, end_date, today, pads_year))

\* client.py:691 evaluates the name format_date, and client.py:26 imports
\* only build_url, validate_date_range and build_query_params from utils:
\* the name is bound nowhere in the module
FormatDateInClient(date_value, pads_year) ==
    Raised(Exc("NameError", "name 'format_date' is not defined", ""))

\* client.py:689-705
get_board_history(board, engine, market, date, pads_year) ==
    LET formatted == IF TruthyDate(date)
                     THEN FormatDateInClient(date.v, pads_year)
                     ELSE Returned(<<>>)
    IN IF formatted.kind = "raise" THEN Refused(formatted.error)
       ELSE Plan(HistoryOfBoardSecurities,
                 <<<<"engine", engine>>, <<"market", market>>, <<"board", board>>>>,
                 IF TruthyDate(date) THEN <<<<"date", StrParam(formatted.result)>>>>
                 ELSE <<>>,
                 "history")

\* endpoints.py:128-136
interval_map ==
    <<<<"min", 1>>, <<"1min", 1>>, <<"10min", 10>>, <<"hour", 60>>,
      <<"day", 24>>, <<"week", 7>>, <<"month", 31>>, <<"quarter", 4>>>>

\* endpoints.py:139-142: the ValueError, with the names its message lists
InvalidInterval ==
    [Exc("ValueError", "Invalid interval", "") EXCEPT
        !.data = [kind |-> "text", text |-> "",
                  value |-> [kind |-> "names",
                             items |-> DictKeys(interval_map)]]]

\* a lookup that gives the code of one minute for every name
IntervalCodeOfMinute(interval) == 1

\* endpoints.py:144: interval_map[interval]
IntervalCode(interval) == DictGet(interval_map, interval)

\* endpoints.py:127-154
get_stock_candles(ticker, interval, start_date, end_date, board, today, pads_year) ==
    IF ~DictHas(interval_map, interval) THEN Refused(InvalidInterval)
    ELSE get_candles(ticker, "stock", "shares", IntervalCode(interval),
                     start_date, end_date, board, NoStr, today, pads_year)

AllSecurities == Endpoint(TRUE, <<"securities">>)
SecuritiesOfBoard ==
    Endpoint(TRUE, <<"engines", "[engine]", "markets", "[market]", "boards",
                     "[board]", "securities">>)
SecuritiesOfMarket ==
    Endpoint(TRUE, <<"engines", "[engine]", "markets", "[market]", "securities">>)

\* a selection that looks at the board before the query
get_securities_board_first(engine, market, board, query) ==
    IF TruthyStr(engine) /\ TruthyStr(market) /\ TruthyStr(board)
    THEN Plan(SecuritiesOfBoard,
              <<<<"engine", engine.v>>, <<"market", market.v>>,
                <<"board", board.v>>>>,
              <<>>, "securities")
    ELSE IF TruthyText(query)
    THEN Plan(AllSecurities, <<>>, <<<<"q", StrParam(query.v)>>>>, "securities")
    ELSE IF TruthyStr(engine) /\ TruthyStr(market)
    THEN Plan(SecuritiesOfMarket,
              <<<<"engine", engine.v>>, <<"market", market.v>>>>,
              <<>>, "securities")
    ELSE Plan(AllSecurities, <<>>, <<>>, "securities")

\* client.py:360-386
get_securities(engine, market, board, query) ==
    IF TruthyText(query)
    THEN Plan(AllSecurities, <<>>, <<<<"q", StrParam(query.v)>>>>, "securities")
    ELSE IF TruthyStr(engine) /\ TruthyStr(market) /\ TruthyStr(board)
    THEN Plan(SecuritiesOfBoard,
              <<<<"engine", engine.v>>, <<"market", market.v>>,
                <<"board", board.v>>>>,
              <<>>, "securities")
    ELSE IF TruthyStr(engine) /\ TruthyStr(market)
    THEN Plan(SecuritiesOfMarket,
              <<<<"engine", engine.v>>, <<"market", market.v>>>>,
              <<>>, "securities")
    ELSE Plan(AllSecurities, <<>>, <<>>, "securities")

\* client.py:44
BASE_URL == Url("https://iss.moex.com", <<"iss">>, FALSE)

\* client.py:109-115: the URL handed to the transport, with the format
\* appended to it
RequestUrl(plan) ==
    [url |-> build_url(BASE_URL, plan.endpoint, plan.path_params),
     format |-> ".json"]

\* dict.update
RECURSIVE DictUpdate(_, _, _)
DictUpdate(d, other, i) ==
    IF i > Len(other) THEN d
    ELSE DictUpdate(DictSet(d, other[i][1], other[i][2]), other, i + 1)

\* client.py:112-117: the query parameters handed to the transport
RequestQuery(plan) ==
    LET query_params == <<<<"iss.json", <<"extended">>>>,
                          <<"iss.meta", <<"off">>>>>>
    IN IF plan.params # <<>>
       THEN DictUpdate(query_params, build_query_params(plan.params), 1)
       ELSE query_params

\* what the server answers to the request of an endpoint method: a 429
\* without and with a Retry-After that is no integer, a 404, and a 200 whose
\* body is no JSON, a JSON array, a document with the block of one row, or
\* a document without the block
EndpointResponses(block) ==
    {Response(429, NoHeader, NoBody),
     Response(429, [some |-> TRUE, v |-> <<"x">>], NoBody),
     Response(404, NoHeader, NoBody),
     Response(200, NoHeader, TextBody("This is not JSON")),
     Response(200, NoHeader, JsonBody("[]", [kind |-> "list", items |-> <<>>])),
     Response(200, NoHeader,
              JsonBody("{block: [[1, 2]]}", NamedBlock(block, <<"a", "b">>, <<2>>))),
     Response(200, NoHeader,
              JsonBody("{other: [[1, 2]]}", NamedBlock("other", <<"a", "b">>, <<2>>)))}

IsoArg(y, m, d) == SomeArg(StrValue(Render("iso", Date(y, m, d))))

EmptyDate == SomeArg(StrValue(<<>>))

\* the start_date and end_date arguments: none, empty strings, a range, a
\* range the wrong way round, a word, a year below 1000, a start after
\* today, a dotted date and a date object
DatePairs ==
    {<<NoArg, NoArg>>, <<EmptyDate, NoArg>>, <<NoArg, EmptyDate>>,
     <<EmptyDate, EmptyDate>>, <<EmptyDate, IsoArg(2024, 1, 1)>>,
     <<IsoArg(2024, 1, 1), IsoArg(2024, 3, 10)>>,
     <<IsoArg(2024, 3, 10), IsoArg(2024, 1, 1)>>,
     <<SomeArg(StrValue(<<"t", "o", "d", "a", "y">>)), NoArg>>,
     <<NoArg, IsoArg(999, 1, 1)>>,
     <<IsoArg(999, 1, 1), IsoArg(2024, 1, 1)>>,
     <<IsoArg(2024, 3, 10), NoArg>>,
     <<SomeArg(StrValue(Render("dotted", Date(2024, 1, 10)))), NoArg>>,
     <<SomeArg(DateValue(Date(2024, 1, 1))), NoArg>>}

\* the date argument of get_board_history
BoardDates ==
    {NoArg, EmptyDate, IsoArg(2024, 1, 1),
     SomeArg(StrValue(<<"t", "o", "d", "a", "y">>)),
     SomeArg(DateValue(Date(2024, 1, 1)))}

\* the dates get_multi_timeframe_candles is called with
MultiDatePairs ==
    {<<NoArg, NoArg>>, <<IsoArg(2024, 1, 1), IsoArg(2024, 3, 10)>>,
     <<IsoArg(2024, 3, 10), IsoArg(2024, 1, 1)>>}

BoardArgs == {NoStr, SomeStr(""), SomeStr("TQBR")}
BoardGroupArgs == {NoStr, SomeStr("stock_tplus")}
ColumnsArgs ==
    {NoText, SomeText(<<>>),
     SomeText(<<StrParam(<<"O", "P", "E", "N">>), StrParam(<<"L", "O", "W">>)>>)}
EngineArgs == {NoStr, SomeStr(""), SomeStr("stock")}
MarketArgs == {NoStr, SomeStr("shares")}
QueryArgs == {NoText, SomeText(<<>>), SomeText(<<"S", "B", "E", "R">>)}

\* the interval names callers pass: the eight names, a name that is none
\* (spec, the scenario of "biweekly") and the empty name
IntervalNames ==
    {"min", "1min", "10min", "hour", "day", "week", "month", "quarter",
     "biweekly", ""}

IntervalLists ==
    UNION {[1..n -> {"day", "week", "biweekly"}] : n \in 0..MaxIntervals}

EndpointsInit ==
    /\ ClientIdle
    /\ sleep_real = TRUE
    /\ rate_limit = RATE_LIMIT
    /\ ParseIdle
    /\ RestIdle

EndpointsUnchanged ==
    UNCHANGED <<parse_vars, sleep_real, rate_limit, pc, req, send_time,
                call_out, prev, threads, batch, date_in, date_out, built,
                url_in, url_out>>

\* the call of a method, with the day and the C library it runs on
Called(op, args, today, pads_year) ==
    [NoEndpointCall EXCEPT !.op = op, !.args = args, !.today = today,
                           !.pads_year = pads_year]

\* client.py:243-287 and 75-162 under the method: a method that raised
\* before get_dataframe touches nothing; otherwise the gate runs, the request
\* is handed to the transport, and the answer goes through get_json,
\* get_data and get_dataframe
Perform(call) ==
    IF call.plan.kind = "raise"
    THEN /\ ep' = [call EXCEPT !.out = Raised(call.plan.error)]
         /\ UNCHANGED <<now, last_request_time, gate, sent, resp>>
    ELSE LET g == enforce_rate_limit(rate_limit, last_request_time, now)
             wake == IF g.slept # <<>> THEN now + g.slept[1] ELSE now
             sending == [call EXCEPT !.url = RequestUrl(call.plan),
                                     !.query = RequestQuery(call.plan)]
             block == Some(call.plan.block_name)
         IN /\ wake <= MaxTime
            /\ gate' = g
            /\ now' = wake
            /\ sent' = sent + 1
            /\ \/ \E r \in EndpointResponses(call.plan.block_name) :
                    /\ last_request_time' = record_request_time(wake, wake)
                    /\ resp' = r
                    /\ ep' = [sending EXCEPT !.out =
                                 Layers(CheckStatus(r), block).dataframe]
               \/ \E e \in TransportErrors :
                    /\ UNCHANGED last_request_time
                    /\ resp' = [NoResp EXCEPT !.exc = e]
                    /\ ep' = [sending EXCEPT !.out =
                                 Layers(OnRequestException(e), block).dataframe]

\* client.get_candles(...) is called
GetCandles ==
    /\ ep.op = "none"
    /\ \E dates \in DatePairs, board \in BoardArgs, board_group \in BoardGroupArgs,
          today \in Todays, pads_year \in BOOLEAN :
         LET args == [NoArgs EXCEPT !.security_id = "SBER",
                         !.engine = SomeStr("stock"), !.market = SomeStr("shares"),
                         !.code = 24, !.start = dates[1], !.end = dates[2],
                         !.board = board, !.board_group = board_group]
         IN \E call \in {[Called("get_candles", args, today, pads_year) EXCEPT
                        !.plan = get_candles("SBER", "stock", "shares", 24,
                                             dates[1], dates[2], board,
                                             board_group, today, pads_year)]} : Perform(call)
    /\ EndpointsUnchanged

\* client.get_market_history(...) is called
GetMarketHistory ==
    /\ ep.op = "none"
    /\ \E dates \in DatePairs, board \in BoardArgs, columns \in ColumnsArgs,
          today \in Todays, pads_year \in BOOLEAN :
         LET args == [NoArgs EXCEPT !.security_id = "SBER",
                         !.engine = SomeStr("stock"), !.market = SomeStr("shares"),
                         !.start = dates[1], !.end = dates[2],
                         !.board = board, !.columns = columns]
         IN \E call \in {[Called("get_market_history", args, today, pads_year) EXCEPT
                        !.plan = get_market_history("SBER", "stock", "shares",
                                                    dates[1], dates[2], board,
                                                    columns, today, pads_year)]} : Perform(call)
    /\ EndpointsUnchanged

\* client.get_board_history(...) is called
GetBoardHistory ==
    /\ ep.op = "none"
    /\ \E date \in BoardDates, today \in Todays, pads_year \in BOOLEAN :
         LET args == [NoArgs EXCEPT !.engine = SomeStr("stock"),
                         !.market = SomeStr("shares"), !.board = SomeStr("TQBR"),
                         !.date = date]
         IN \E call \in {[Called("get_board_history", args, today, pads_year) EXCEPT
                        !.plan = get_board_history("TQBR", "stock", "shares",
                                                   date, pads_year)]} : Perform(call)
    /\ EndpointsUnchanged

\* get_stock_candles(client, ...) is called
GetStockCandles ==
    /\ ep.op = "none"
    /\ \E interval \in IntervalNames, dates \in DatePairs, today \in Todays,
          pads_year \in BOOLEAN :
         LET args == [NoArgs EXCEPT !.security_id = "SBER",
                         !.interval = interval, !.start = dates[1],
                         !.end = dates[2], !.board = SomeStr("TQBR")]
         IN \E call \in {[Called("get_stock_candles", args, today, pads_year) EXCEPT
                        !.plan = get_stock_candles("SBER", interval, dates[1],
                                                   dates[2], SomeStr("TQBR"),
                                                   today, pads_year)]} : Perform(call)
    /\ EndpointsUnchanged

\* client.get_securities(...) is called
GetSecurities ==
    /\ ep.op = "none"
    /\ \E engine \in EngineArgs, market \in MarketArgs, board \in BoardArgs,
          query \in QueryArgs, today \in Todays :
         LET args == [NoArgs EXCEPT !.engine = engine, !.market = market,
                                    !.board = board, !.query = query]
         IN \E call \in {[Called("get_securities", args, today, TRUE) EXCEPT
                        !.plan = get_securities(engine, market, board, query)]} : Perform(call)
    /\ EndpointsUnchanged

\* endpoints.py:348 and 353: except ValueError, except MoexApiError
CaughtByMulti(e) == e.type = "ValueError" \/ CaughtBySnapshot(e)

\* endpoints.py:336-356: one pass of the loop, after get_stock_candles gave
\* df_out for the interval
MultiLoopBody(call, df_out) ==
    LET interval == call.args.intervals[call.i]
        logged == [call EXCEPT !.log = Append(@, df_out.kind)]
    IN IF df_out.kind = "ok"
       THEN [logged EXCEPT !.i = @ + 1,
                           !.result = DictSet(@, interval, df_out.result)]
       ELSE IF CaughtByMulti(df_out.error)
       THEN [logged EXCEPT !.i = @ + 1]
       ELSE [logged EXCEPT !.out = df_out]

\* endpoints.py:311-333: the call, with its list of intervals
GetMultiTimeframeCandles ==
    /\ ep.op = "none"
    /\ \E intervals \in IntervalLists, dates \in MultiDatePairs,
          today \in Todays, pads_year \in BOOLEAN :
         ep' = [Called("get_multi_timeframe_candles",
                       [NoArgs EXCEPT !.security_id = "SBER",
                           !.intervals = intervals, !.start = dates[1],
                           !.end = dates[2], !.board = SomeStr("TQBR")],
                       today, pads_year) EXCEPT !.i = 1]
    /\ UNCHANGED <<now, last_request_time, gate, sent, resp>>
    /\ EndpointsUnchanged

\* endpoints.py:335-356: get_stock_candles for the next interval
FetchInterval ==
    /\ ep.op = "get_multi_timeframe_candles"
    /\ ep.i \in 1..Len(ep.args.intervals)
    /\ ep.out.kind = "none"
    /\ \E plan \in {get_stock_candles(ep.args.security_id,
                                      ep.args.intervals[ep.i], ep.args.start,
                                      ep.args.end, ep.args.board, ep.today,
                                      ep.pads_year)} :
       LET call == [ep EXCEPT !.plan = plan]
       IN IF plan.kind = "raise"
          THEN /\ ep' = MultiLoopBody(call, Raised(plan.error))
               /\ UNCHANGED <<now, last_request_time, gate, sent, resp>>
          ELSE LET g == enforce_rate_limit(rate_limit, last_request_time, now)
                   wake == IF g.slept # <<>> THEN now + g.slept[1] ELSE now
                   sending == [call EXCEPT !.url = RequestUrl(plan),
                                           !.query = RequestQuery(plan)]
                   block == Some(plan.block_name)
               IN /\ wake <= MaxTime
                  /\ gate' = g
                  /\ now' = wake
                  /\ sent' = sent + 1
                  /\ \/ \E r \in EndpointResponses(plan.block_name) :
                          /\ last_request_time' = record_request_time(wake, wake)
                          /\ resp' = r
                          /\ ep' = MultiLoopBody(sending,
                                      Layers(CheckStatus(r), block).dataframe)
                     \/ \E e \in TransportErrors :
                          /\ UNCHANGED last_request_time
                          /\ resp' = [NoResp EXCEPT !.exc = e]
                          /\ ep' = MultiLoopBody(sending,
                                      Layers(OnRequestException(e), block).dataframe)
    /\ EndpointsUnchanged

\* endpoints.py:358: return result
MultiReturn ==
    /\ ep.op = "get_multi_timeframe_candles"
    /\ ep.i = Len(ep.args.intervals) + 1
    /\ ep.out.kind = "none"
    /\ ep' = [ep EXCEPT !.out = Returned(ep.result)]
    /\ UNCHANGED <<now, last_request_time, gate, sent, resp>>
    /\ EndpointsUnchanged

EndpointsNext ==
    \/ GetCandles
    \/ GetMarketHistory
    \/ GetBoardHistory
    \/ GetStockCandles
    \/ GetSecurities
    \/ GetMultiTimeframeCandles
    \/ FetchInterval
    \/ MultiReturn

SpecEndpoints == EndpointsInit /\ [][EndpointsNext]_vars

----------------------------------------------------------------------------
(* Properties of the endpoint methods.                                      *)

EndpointOver == ep.out.kind # "none"

\* the dates the date arguments are written from
EndpointDates ==
    {Date(2024, 1, 1), Date(2024, 1, 10), Date(2024, 3, 10), Date(999, 1, 1)}

\* the argument is given and is a date: a date object, or a string that is a
\* valid date in a documented shape
ParsableArg(arg) ==
    /\ arg.some
    /\ \/ arg.v.kind = "date"
       \/ arg.v.kind = "str" /\ \E date \in EndpointDates : Denotes(arg.v.chars, date)

DateOfArg(arg) ==
    IF arg.v.kind = "date" THEN arg.v.date
    ELSE CHOOSE date \in EndpointDates : Denotes(arg.v.chars, date)

\* the text is of the form YYYY-MM-DD
IsYmd(s) ==
    /\ Len(s) = 10
    /\ s[5] = "-" /\ s[8] = "-"
    /\ \A i \in {1, 2, 3, 4, 6, 7, 9, 10} : s[i] \in Digits

\* the query parameter `key` carries the date of the argument
Transmits(key, arg) ==
    /\ DictHas(ep.query, key)
    /\ DictGet(ep.query, key) = Render("iso", DateOfArg(arg))

\* C21 as stated: get_candles, get_market_history and get_board_history
\* either fail with a validation error or send every given, parsable date
\* as a YYYY-MM-DD query parameter; no other failure occurs before the
\* request and no date is sent in another form.
C21_AsStated ==
    (ep.op \in {"get_candles", "get_market_history", "get_board_history"}
       /\ EndpointOver) =>
        /\ ep.plan.kind = "raise" => ep.plan.error.type = "ValueError"
        /\ ep.plan.kind = "request" =>
              /\ ParsableArg(ep.args.start) => Transmits("from", ep.args.start)
              /\ ParsableArg(ep.args.end) => Transmits("till", ep.args.end)
              /\ ParsableArg(ep.args.date) => Transmits("date", ep.args.date)
              /\ \A i \in 1..Len(ep.query) :
                    ep.query[i][1] \in {"from", "till", "date"} =>
                        IsYmd(ep.query[i][2])

\* the names and codes of the candle intervals (spec, Candle interval
\* vocabulary)
DocumentedIntervals ==
    <<<<"min", 1>>, <<"1min", 1>>, <<"10min", 10>>, <<"hour", 60>>,
      <<"day", 24>>, <<"week", 7>>, <<"month", 31>>, <<"quarter", 4>>>>

\* C22: get_stock_candles maps min, 1min, 10min, hour, day, week, month,
\* quarter to 1, 1, 10, 60, 24, 7, 31, 4 and passes the code as the interval
\* of the candles request; any other name raises ValueError whose message
\* lists exactly these eight names, and nothing is requested.
C22_IntervalCodes ==
    (ep.op = "get_stock_candles" /\ EndpointOver) =>
        IF DictHas(DocumentedIntervals, ep.args.interval)
        THEN LET code == DictGet(DocumentedIntervals, ep.args.interval) IN
             /\ ep.plan.kind = "raise" => ep.plan.error.message # "Invalid interval"
             /\ ep.plan.kind = "request" =>
                   /\ ep.plan.endpoint = CandlesOfBoard
                   /\ DictGet(ep.plan.params, "interval") = IntParam(code)
                   /\ DictGet(ep.query, "interval") = Decimal(code)
                   /\ sent = 1
        ELSE /\ ep.out.kind = "raise"
             /\ ep.out.error.type = "ValueError"
             /\ ep.out.error.message = "Invalid interval"
             /\ ep.out.error.data.value.items = DictKeys(DocumentedIntervals)
             /\ sent = 0

\* the candles of a week were requested with interval=7 and came back
C22_Witness ==
    /\ ep.op = "get_stock_candles"
    /\ ep.args.interval = "week"
    /\ ep.out.kind = "ok"
    /\ DictGet(ep.query, "interval") = <<"7">>
    /\ sent = 1

\* C25 as stated: get_candles raises ValueError and sends no request when
\* neither board nor board_group is given.
C25_AsStated ==
    (ep.op = "get_candles" /\ EndpointOver
       /\ ~TruthyStr(ep.args.board) /\ ~TruthyStr(ep.args.board_group)) =>
        /\ ep.out.kind = "raise"
        /\ ep.out.error.type = "ValueError"
        /\ sent = 0

\* the argument is given and is not a date in any accepted form
UnparsableArg(arg) == arg.some /\ ~ParsableArg(arg)

\* both dates are given and parsable, and the start is after the end
StartAfterEnd(start_date, end_date) ==
    /\ ParsableArg(start_date) /\ ParsableArg(end_date)
    /\ Ordinal(DateOfArg(start_date)) > Ordinal(DateOfArg(end_date))

\* the call was given an input the validation is there to refuse
InvalidInput ==
    \/ /\ ep.op = "get_stock_candles"
       /\ ~DictHas(DocumentedIntervals, ep.args.interval)
    \/ /\ ep.op \in {"get_candles", "get_market_history"}
       /\ \/ UnparsableArg(ep.args.start)
          \/ UnparsableArg(ep.args.end)
          \/ StartAfterEnd(ep.args.start, ep.args.end)

\* the call failed with a validation error and nothing else happened: the
\* gate did not run, the clock did not move, nothing was sent and
\* last_request_time is what it was
RefusedBeforeNetwork ==
    /\ ep.out.kind = "raise"
    /\ ep.out.error.type = "ValueError"
    /\ gate = NoGate
    /\ sent = 0
    /\ now = 0
    /\ last_request_time = 0

\* C28 as stated: a call of get_stock_candles with an unrecognized interval
\* name, or of get_candles / get_market_history with an unparsable date or
\* a start date after the end date, fails with a validation error before
\* the rate-limit gate runs and before a request is sent; there is no sleep
\* and last_request_time is unchanged.
C28_AsStated ==
    (EndpointOver /\ InvalidInput) => RefusedBeforeNetwork

\* C29 as stated: get_multi_timeframe_candles always returns; the keys of
\* the mapping are exactly the requested intervals that are valid names and
\* whose fetch succeeded; with a start date after the end date the mapping
\* is empty and no request was sent.
C29_AsStated ==
    (ep.op = "get_multi_timeframe_candles" /\ EndpointOver) =>
        /\ ep.out.kind = "ok"
        /\ {ep.out.result[j][1] : j \in 1..Len(ep.out.result)}
             = {n \in {ep.args.intervals[i] : i \in 1..Len(ep.args.intervals)} :
                   /\ DictHas(DocumentedIntervals, n)
                   /\ \E i \in 1..Len(ep.log) :
                         ep.args.intervals[i] = n /\ ep.log[i] = "ok"}
        /\ StartAfterEnd(ep.args.start, ep.args.end) =>
              ep.out.result = <<>> /\ sent = 0

\* the blocks of the response's body that carry the name
BlocksNamed(name) ==
    IF resp.status = 200 /\ resp.body.is_json /\ resp.body.value.kind = "dict"
    THEN {i \in 1..Len(resp.body.value.items) :
             resp.body.value.items[i].name = name}
    ELSE {}

\* the table of the block, as get_dataframe gives it
TableOfBlock(i) ==
    normalize_dataframe(
        DataFrame(ParseBlock(resp.body.value.items[i].content).result),
        EmptyNormSpec)

\* the last segments of the path are the given ones
EndsWith(path, segments) ==
    /\ Len(path) >= Len(segments)
    /\ SubSeq(path, Len(path) - Len(segments) + 1, Len(path)) = segments

\* C30: get_securities picks one endpoint by precedence: a non-empty query
\* uses /securities with q=query whatever engine, market and board are;
\* otherwise engine, market and board together use the board endpoint;
\* otherwise engine and market use the market endpoint; everything else
\* uses the plain /securities listing. Exactly one request is sent, and a
\* successful call returns the table of the response's securities block.
C30_EndpointPrecedence ==
    (ep.op = "get_securities" /\ EndpointOver) =>
        LET engine == ep.args.engine
            market == ep.args.market
            board == ep.args.board
            query == ep.args.query
            given(a) == a.some /\ a.v # ""
        IN /\ ep.plan.kind = "request"
           /\ IF query.some /\ query.v # <<>>
              THEN /\ ep.plan.endpoint.segments = <<"securities">>
                   /\ ep.plan.path_params = <<>>
                   /\ ep.plan.params = <<<<"q", StrParam(query.v)>>>>
                   /\ DictHas(ep.query, "q")
                   /\ DictGet(ep.query, "q") = query.v
              ELSE IF given(engine) /\ given(market) /\ given(board)
              THEN /\ ep.plan.endpoint.segments =
                         <<"engines", "[engine]", "markets", "[market]",
                           "boards", "[board]", "securities">>
                   /\ ep.plan.path_params =
                         <<<<"engine", engine.v>>, <<"market", market.v>>,
                           <<"board", board.v>>>>
                   /\ EndsWith(ep.url.url.path,
                         <<"engines", engine.v, "markets", market.v, "boards",
                           board.v, "securities">>)
                   /\ ep.plan.params = <<>>
                   /\ ~DictHas(ep.query, "q")
              ELSE IF given(engine) /\ given(market)
              THEN /\ ep.plan.endpoint.segments =
                         <<"engines", "[engine]", "markets", "[market]",
                           "securities">>
                   /\ ep.plan.path_params =
                         <<<<"engine", engine.v>>, <<"market", market.v>>>>
                   /\ EndsWith(ep.url.url.path,
                         <<"engines", engine.v, "markets", market.v,
                           "securities">>)
                   /\ ep.plan.params = <<>>
                   /\ ~DictHas(ep.query, "q")
              ELSE /\ ep.plan.endpoint.segments = <<"securities">>
                   /\ ep.plan.path_params = <<>>
                   /\ ep.plan.params = <<>>
                   /\ ~DictHas(ep.query, "q")
           /\ ep.plan.endpoint.segments = <<"securities">> =>
                 EndsWith(ep.url.url.path, <<"securities">>)
           /\ ep.url.format = ".json"
           /\ sent = 1
           /\ ep.plan.block_name = "securities"
           /\ ep.out.kind = "ok" =>
                 \E i \in BlocksNamed("securities") :
                    ep.out.result = TableOfBlock(i)
           /\ (resp.status = 200 /\ resp.body.is_json
                 /\ BlocksNamed("securities") = {}) => ep.out.kind = "raise"

\* a search for SBER was made with engine, market and board given too, and
\* the table of the securities block came back
C30_Witness ==
    /\ ep.op = "get_securities"
    /\ ep.args.query = SomeText(<<"S", "B", "E", "R">>)
    /\ TruthyStr(ep.args.engine) /\ TruthyStr(ep.args.market)
    /\ TruthyStr(ep.args.board)
    /\ ep.plan.endpoint = AllSecurities
    /\ DictGet(ep.query, "q") = <<"S", "B", "E", "R">>
    /\ sent = 1
    /\ ep.out.kind = "ok"
    /\ BlocksNamed("securities") # {}

====
